---------------------------- MODULE Spec2Model ----------------------------
(***************************************************************************)
(* A model of the OpenClaw desktop core: the provider failover supervisor  *)
(* (app/src/main/services/providerSupervisor.ts, shared/fallback.ts) and   *)
(* the gateway lifecycle controller (services/gatewayService.ts) on top of *)
(* the process executor (services/processRunner.ts).                       *)
(*                                                                         *)
(* Spec        the supervisor as main.ts drives it: one initialize(), the  *)
(*             60 s interval, stop() at before-quit.                       *)
(* ApiSpec     the supervisor driven through its public methods, where     *)
(*             initialize() may be called a second time.                   *)
(* GatewaySpec the gateway controller: start(), stop() and status() calls  *)
(*             made one after the other against the external tool.         *)
(* RaceSpec    the gateway controller called by two callers at once.       *)
(* FnSpec      the functions applied on their own: parseGatewayOutput,     *)
(*             bashQuote, chooseBestProvider, shouldFailover.              *)
(* VerifySpec  CredentialService.verify and its request.                   *)
(* ProcessSpec runProcess, its child and its timer.                        *)
(* HealthSpec  DiagnosticsService.healthCheckProviders and the keys and    *)
(*             verifications it awaits.                                    *)
(***************************************************************************)
EXTENDS Integers, Sequences, FiniteSets, TLC

(***************************************************************************)
(* Bounds of the model.                                                    *)
(***************************************************************************)
\* runCheck invocations modelled after the first one
MaxTicks == 4
\* runCheck invocations modelled as running at once
MaxOverlap == 2
\* length of the strings bashQuote is applied to
MaxLen == 3
\* length of the health lists chooseBestProvider is applied to
MaxEntries == 4
\* the failure counts and thresholds shouldFailover is applied to
MaxCount == 5
\* chunks of output a child of runProcess writes
MaxChunks == 2

(***************************************************************************)
(* Program constants.                                                      *)
(***************************************************************************)
\* shared/types.ts:1  ProviderId
Provider == {"deepseek", "openai", "anthropic", "perplexity"}
\* the value of an unset optional (undefined)
None == "none"
\* shared/fallback.ts  PRIORITY
PRIORITY == <<"deepseek", "openai", "anthropic">>
\* shared/fallback.ts  shouldFailover(failureCount, threshold = 3)
FailoverThreshold == 3

VARIABLES
    \* ---- ProviderSupervisor fields
    timer,            \* this.timer: 0 = undefined, else the handle of an interval
    live,             \* the handles of the intervals registered and not cleared
    failureCounts,    \* this.failureCounts: a map, DOMAIN \subseteq Provider
    activeProvider,   \* this.activeProvider, None when unset
    \* ---- the runCheck invocations, in the order they were started
    ticks,            \* [init, pc, best] each
    \* ---- the callers
    inits,            \* initialize() calls made so far
    \* ---- history (read by no action's guard)
    hist,
    \* ---- GatewayService: the call in progress or last made, and the one before
    gw,
    gwPrev,
    \* ---- one application of a function: [name, arg, done, res]
    fn,
    \* ---- CredentialService.verify: the call in progress or last made
    vf,
    \* ---- runProcess: one call, its child, its timer and its promise
    proc,
    \* ---- GatewayService: a second call, made while the first is in
    \* progress, and the history of the two
    gwB,
    race,
    \* ---- DiagnosticsService.healthCheckProviders: the call in progress or
    \* last made
    hc

supVars == <<timer, live, failureCounts, activeProvider, ticks, inits, hist>>

gwVars == <<gw, gwPrev>>

fnVars == <<fn>>

vfVars == <<vf>>

procVars == <<proc>>

raceVars == <<gwB, race>>

hcVars == <<hc>>

\* what the supervisor's actions leave alone
notSupVars == <<gwVars, fnVars, vfVars, procVars, raceVars, hcVars>>

\* what the gateway controller's actions leave alone
notGwVars == <<supVars, fnVars, vfVars, procVars, raceVars, hcVars>>

\* what the application of a function leaves alone
notFnVars == <<supVars, gwVars, vfVars, procVars, raceVars, hcVars>>

\* what verify leaves alone
notVfVars == <<supVars, gwVars, fnVars, procVars, raceVars, hcVars>>

\* what runProcess leaves alone
notProcVars == <<supVars, gwVars, fnVars, vfVars, raceVars, hcVars>>

\* what two calls of the gateway controller leave alone
notRaceVars == <<supVars, gwPrev, fnVars, vfVars, procVars, hcVars>>

\* what healthCheckProviders leaves alone
notHcVars == <<supVars, gwVars, fnVars, vfVars, procVars, raceVars>>

vars == <<supVars, gwVars, fnVars, vfVars, procVars, raceVars, hcVars>>

(***************************************************************************)
(* shared/fallback.ts                                                      *)
(***************************************************************************)
\* the healthy providers that may be a primary model provider; health is
\* the list of the entries [provider, ok]
HealthySet(health) ==
    {health[k].provider : k \in {j \in DOMAIN health : health[j].ok}} \ {"perplexity"}

RECURSIVE FindFirst(_, _, _)
\* Array.prototype.find over seq from index i
FindFirst(seq, i, S) ==
    IF i > Len(seq) THEN None
    ELSE IF seq[i] \in S THEN seq[i]
    ELSE FindFirst(seq, i + 1, S)

\* chooseBestProvider taking the first healthy entry of the list
chooseBestProviderInListOrder(health) ==
    LET healthy == HealthySet(health)
    IN  IF \E k \in DOMAIN health : health[k].provider \in healthy
        THEN health[CHOOSE k \in DOMAIN health :
                        /\ health[k].provider \in healthy
                        /\ \A j \in 1..(k - 1) : health[j].provider \notin healthy].provider
        ELSE None

\* chooseBestProvider falling back to the first provider of PRIORITY when
\* none is healthy
chooseBestProviderOrFirst(health) ==
    IF HealthySet(health) = {} THEN PRIORITY[1]
    ELSE FindFirst(PRIORITY, 1, HealthySet(health))

chooseBestProvider(health) == FindFirst(PRIORITY, 1, HealthySet(health))

\* diagnosticsService.ts HEALTH_PROVIDERS
HEALTH_PROVIDERS == <<"deepseek", "openai", "anthropic", "perplexity">>

\* the list healthCheckProviders() returns: one entry per provider, in the
\* order of HEALTH_PROVIDERS; ok[p] is whether p was found healthy
Entries(ok) ==
    [k \in DOMAIN HEALTH_PROVIDERS |->
        [provider |-> HEALTH_PROVIDERS[k], ok |-> ok[HEALTH_PROVIDERS[k]]]]

\* shouldFailover comparing with > in place of >=
shouldFailoverStrict(failureCount, threshold) == failureCount > threshold

shouldFailover(failureCount, threshold) == failureCount >= threshold

\* the threshold a call with the arguments args runs with: `threshold = 3`
ThresholdOf(args) == IF Len(args) >= 2 THEN args[2] ELSE FailoverThreshold

(***************************************************************************)
(* ProviderSupervisor: helpers                                             *)
(***************************************************************************)
\* this.failureCounts.get(p) ?? 0
GetCount(counts, p) == IF p \in DOMAIN counts THEN counts[p] ELSE 0

\* a set() that never lowers a counter
SetCountNoReset(counts, p, n) ==
    [q \in (DOMAIN counts) \cup {p} |->
        IF q = p /\ n > GetCount(counts, p) THEN n ELSE GetCount(counts, q)]

\* this.failureCounts.set(p, n)
SetCount(counts, p, n) ==
    [q \in (DOMAIN counts) \cup {p} |-> IF q = p THEN n ELSE counts[q]]

\* new Map() and this.failureCounts.clear()
EmptyCounts == [q \in {} |-> 0]

AllCountsZero(counts) == \A q \in DOMAIN counts : counts[q] = 0

\* the awaits of runCheck
InFlightPcs == {"listConfigured", "health", "apply", "stop", "start"}

\* the runCheck invocations between their start and their completion
InFlight == {i \in 1..Len(ticks) : ticks[i].pc \in InFlightPcs}

\* a runCheck(initializeOnly) invocation at its first await (listConfigured)
NewTick(initializeOnly) ==
    [init |-> initializeOnly, pc |-> "listConfigured", best |-> None]

(***************************************************************************)
(* History.  hist.threw: a collaborator call has thrown.  hist.stopped:    *)
(* stop() has been called and has returned.                                *)
(* hist.applySinceSwitch: applyProfile calls issued since activeProvider   *)
(* last changed.  hist.run: how many ticks the most recent ticks form that *)
(* are normal ticks, each started while no other was running, the first of *)
(* them started with activeProvider = deepseek and no counter nonzero,     *)
(* none of which threw, and each of which saw (if it got its snapshot)     *)
(* deepseek unhealthy and openai healthy.  hist.runCalls: the calls those  *)
(* ticks issued.  hist.resumed: the interval has started a tick since a     *)
(* collaborator call threw.  hist.down: how many ticks the most recent     *)
(* snapshots form in which the provider then active was unhealthy, none    *)
(* of them older than the last failover.  hist.counted: those of them in   *)
(* which some eligible provider was healthy.                               *)
(***************************************************************************)
NoCalls == [applyProfile |-> 0, notify |-> 0, stop |-> 0, start |-> 0]

HistInit ==
    [threw |-> FALSE, resumed |-> FALSE, stopped |-> FALSE, applySinceSwitch |-> 0,
     run |-> 0, runCalls |-> NoCalls, down |-> 0, counted |-> 0]

\* a normal tick starts
HistTick ==
    LET run == IF InFlight # {} THEN 0
               ELSE IF hist.run \in 1..(FailoverThreshold - 1) THEN hist.run + 1
               ELSE IF activeProvider = "deepseek" /\ AllCountsZero(failureCounts)
                    THEN 1
               ELSE 0
    IN  [hist EXCEPT !.run = run,
                     !.runCalls = IF run > 1 THEN @ ELSE NoCalls,
                     !.resumed = @ \/ hist.threw]

\* a snapshot is received
HistSees(h, health) ==
    [h EXCEPT !.run = IF ~health["deepseek"] /\ health["openai"] THEN @ ELSE 0]

\* a tick has its snapshot, in which the active provider is healthy
HistUp(h) == [h EXCEPT !.down = 0, !.counted = 0]

\* a tick has its snapshot, in which the active provider is unhealthy and
\* some eligible provider is healthy (counted) or none is
HistDown(h, counted) ==
    [h EXCEPT !.down = @ + 1, !.counted = IF counted THEN @ + 1 ELSE @]

\* a failover has switched the provider and cleared the counters
HistFailover(h) == [h EXCEPT !.down = 0, !.counted = 0]

\* a collaborator is called
HistCall(h, op) ==
    [h EXCEPT !.runCalls[op] = IF h.run > 0 THEN @ + 1 ELSE @,
              !.applySinceSwitch = IF op = "applyProfile" THEN @ + 1 ELSE @]

\* this.activeProvider is assigned
HistActive(h, new) ==
    [h EXCEPT !.applySinceSwitch = IF new # activeProvider THEN 0 ELSE @]

\* a collaborator call throws
HistThrow(h) == [h EXCEPT !.threw = TRUE, !.run = 0]

(***************************************************************************)
(* ProviderSupervisor: initialize, the interval, runCheck, stop            *)
(***************************************************************************)
\* initialize() lines 46-49: the continuation after `await this.runCheck(true)`
\* registers the interval. It runs as a microtask when the promise of the
\* tick is fulfilled, before any timer or event callback.
ArmsTimer(tk) == tk.init /\ tk.pc = "done"

\* tick i has moved to tk
TimerAfter(i, tk) ==
    IF ArmsTimer(tk)
    THEN /\ timer' = i
         /\ live' = live \cup {i}
    ELSE UNCHANGED <<timer, live>>

\* initialize() lines 44-46, to the first await of its tick
StartInitialize ==
    /\ inits' = inits + 1
    /\ ticks' = Append(ticks, NewTick(TRUE))
    /\ hist' = [hist EXCEPT !.run = 0]
    /\ UNCHANGED <<timer, live, failureCounts, activeProvider>>
    /\ UNCHANGED notSupVars

\* main.ts:232  await providerSupervisor.initialize(settings)
Initialize ==
    /\ inits = 0
    /\ StartInitialize

\* a second initialize() call on the same supervisor, made while no tick is
\* running (ticks of the interval may start while its own tick runs)
Reinitialize ==
    /\ inits = 1
    /\ Len(ticks) < MaxTicks + 1
    /\ InFlight = {}
    /\ StartInitialize

\* the setInterval callback (line 48): void this.runCheck(false)
TimerFire ==
    /\ live # {}
    /\ Len(ticks) < MaxTicks + 1
    /\ Cardinality(InFlight) < MaxOverlap
    /\ ticks' = Append(ticks, NewTick(FALSE))
    /\ hist' = HistTick
    /\ UNCHANGED <<timer, live, failureCounts, activeProvider, inits>>
    /\ UNCHANGED notSupVars

\* listConfigured() has returned (line 58): the call of healthCheckProviders()
ListConfiguredReturns(i) ==
    /\ i \in 1..Len(ticks)
    /\ ticks[i].pc = "listConfigured"
    /\ ticks' = [ticks EXCEPT ![i].pc = "health"]
    /\ UNCHANGED <<timer, live, failureCounts, activeProvider, inits, hist>>
    /\ UNCHANGED notSupVars

\* the failover condition with the threshold compared by > instead of >=
FailoverDueLate(initializeOnly, nextCount, best, active) ==
    /\ ~initializeOnly
    /\ nextCount > FailoverThreshold
    /\ best # active

\* the failover condition without the initialize-only test
FailoverDueAlways(initializeOnly, nextCount, best, active) ==
    /\ shouldFailover(nextCount, FailoverThreshold)
    /\ best # active

\* line 74: the failover condition
FailoverDue(initializeOnly, nextCount, best, active) ==
    /\ ~initializeOnly
    /\ shouldFailover(nextCount, FailoverThreshold)
    /\ best # active

\* healthCheckProviders() has returned (line 59). The synchronous block up to
\* the next await or to the end: chooseBestProvider, the adoption of a first
\* active provider, the counter update and, when a failover is due, the call
\* of applyProfile (lines 60-75, 82-84).
HealthReturns(i, health) ==
    /\ i \in 1..Len(ticks)
    /\ ticks[i].pc = "health"
    /\ LET best   == chooseBestProvider(Entries(health))
           active == IF activeProvider = None THEN best ELSE activeProvider
           next   == GetCount(failureCounts, active) + 1
           seen   == HistSees(hist, health)
           over   == [ticks[i] EXCEPT !.pc = "done"]
       IN  IF best = None
           THEN \* line 61: no healthy provider
                /\ ticks' = [ticks EXCEPT ![i] = over]
                /\ hist' = IF activeProvider = None THEN seen
                           ELSE HistDown(seen, FALSE)
                /\ UNCHANGED <<failureCounts, activeProvider>>
                /\ TimerAfter(i, over)
           ELSE /\ activeProvider' = active
                /\ IF ~health[active]
                   THEN /\ failureCounts' = SetCount(failureCounts, active, next)
                        /\ IF FailoverDue(ticks[i].init, next, best, active)
                           THEN /\ ticks' = [ticks EXCEPT ![i].pc = "apply",
                                                          ![i].best = best]
                                /\ hist' = HistCall(HistActive(HistDown(seen, TRUE),
                                                               active),
                                                    "applyProfile")
                                /\ UNCHANGED <<timer, live>>
                           ELSE /\ ticks' = [ticks EXCEPT ![i] = over]
                                /\ hist' = HistActive(HistDown(seen, TRUE), active)
                                /\ TimerAfter(i, over)
                   ELSE /\ failureCounts' = SetCount(failureCounts, active, 0)
                        /\ ticks' = [ticks EXCEPT ![i] = over]
                        /\ hist' = HistActive(HistUp(seen), active)
                        /\ TimerAfter(i, over)
    /\ UNCHANGED inits
    /\ UNCHANGED notSupVars

\* a failover that keeps the counters
ClearCountsNot(counts) == counts

\* line 78: this.failureCounts.clear()
ClearCounts(counts) == EmptyCounts

\* what applyProfile may resolve to (types.ts lines 54-57)
ApplyResult ==
    {[ok |-> TRUE, message |-> "Profile applied."],
     [ok |-> FALSE, message |-> "Failed to write the profile."]}

\* applyProfile has returned result (line 75), which applyProvider drops
\* (lines 96-101, Promise<void>): notify, the switch, the clearing of the
\* counters and the call of gateway.stop() (lines 76-79)
ApplyReturns(i, result) ==
    /\ i \in 1..Len(ticks)
    /\ result \in ApplyResult
    /\ ticks[i].pc = "apply"
    /\ activeProvider' = ticks[i].best
    /\ failureCounts' = ClearCounts(failureCounts)
    /\ ticks' = [ticks EXCEPT ![i].pc = "stop", ![i].best = None]
    /\ hist' = HistCall(HistFailover(HistActive(HistCall(hist, "notify"),
                                                 ticks[i].best)), "stop")
    /\ UNCHANGED <<timer, live, inits>>
    /\ UNCHANGED notSupVars

\* runCheck without its catch block: the promise of the tick rejects
AfterThrowUncaught(tk) == [tk EXCEPT !.pc = "rejected", !.best = None]

\* where a tick is after a collaborator call of it threw: the catch block of
\* lines 85-88 logs a warning and runCheck returns normally
AfterThrow(tk) == [tk EXCEPT !.pc = "done", !.best = None]

\* applyProfile has returned and the notify callback throws (line 76)
NotifyThrows(i) ==
    /\ i \in 1..Len(ticks)
    /\ ticks[i].pc = "apply"
    /\ ticks' = [ticks EXCEPT ![i] = AfterThrow(ticks[i])]
    /\ hist' = HistThrow(HistCall(hist, "notify"))
    /\ UNCHANGED <<timer, live, failureCounts, activeProvider, inits>>
    /\ UNCHANGED notSupVars

\* gateway.stop() has returned (line 79): the call of gateway.start() (line 80)
StopReturns(i) ==
    /\ i \in 1..Len(ticks)
    /\ ticks[i].pc = "stop"
    /\ ticks' = [ticks EXCEPT ![i].pc = "start"]
    /\ hist' = HistCall(hist, "start")
    /\ UNCHANGED <<timer, live, failureCounts, activeProvider, inits>>
    /\ UNCHANGED notSupVars

\* gateway.start() has returned (line 80): the tick ends
StartReturns(i) ==
    /\ i \in 1..Len(ticks)
    /\ ticks[i].pc = "start"
    /\ ticks' = [ticks EXCEPT ![i].pc = "done"]
    /\ UNCHANGED <<timer, live, failureCounts, activeProvider, inits, hist>>
    /\ UNCHANGED notSupVars

\* the awaited call (listConfigured, healthCheckProviders, applyProfile,
\* gateway.stop or gateway.start) rejects
CollaboratorThrows(i) ==
    /\ i \in 1..Len(ticks)
    /\ ticks[i].pc \in InFlightPcs
    /\ ticks' = [ticks EXCEPT ![i] = AfterThrow(ticks[i])]
    /\ hist' = HistThrow(hist)
    /\ TimerAfter(i, AfterThrow(ticks[i]))
    /\ UNCHANGED <<failureCounts, activeProvider, inits>>
    /\ UNCHANGED notSupVars

\* clearInterval(handle), guarded by `if (this.timer)` (lines 38-39)
ClearedBy(handle) == IF handle # 0 THEN {handle} ELSE {}

\* stop() (lines 37-42), called from the before-quit handler (main.ts:273)
Stop ==
    /\ inits > 0
    /\ live' = live \ ClearedBy(timer)
    /\ timer' = 0
    /\ hist' = [hist EXCEPT !.stopped = TRUE]
    /\ UNCHANGED <<failureCounts, activeProvider, ticks, inits>>
    /\ UNCHANGED notSupVars

(***************************************************************************)
(* Strings.  A string is the sequence of its tokens; " " and "\n" are the  *)
(* whitespace tokens, "{" and "}" the braces, << >> the empty string.      *)
(* Undefined is a missing string.  A URL is a string whose first token is  *)
(* its scheme.                                                             *)
(***************************************************************************)
Undefined == <<"<undefined>">>

NoUrl == << >>

Whitespace == {" ", "\n"}

RECURSIVE TrimStart(_)
TrimStart(s) ==
    IF s # << >> /\ Head(s) \in Whitespace THEN TrimStart(Tail(s)) ELSE s

RECURSIVE TrimEnd(_)
TrimEnd(s) ==
    IF s # << >> /\ s[Len(s)] \in Whitespace
    THEN TrimEnd(SubSeq(s, 1, Len(s) - 1)) ELSE s

\* String.prototype.trim
Trim(s) == TrimEnd(TrimStart(s))

\* String.prototype.indexOf, 0 when there is none
IndexOf(s, tok) ==
    IF \E i \in 1..Len(s) : s[i] = tok
    THEN CHOOSE i \in 1..Len(s) : s[i] = tok /\ \A j \in 1..(i - 1) : s[j] # tok
    ELSE 0

\* String.prototype.lastIndexOf, 0 when there is none
LastIndexOf(s, tok) ==
    IF \E i \in 1..Len(s) : s[i] = tok
    THEN CHOOSE i \in 1..Len(s) : s[i] = tok /\ \A j \in (i + 1)..Len(s) : s[j] # tok
    ELSE 0

(***************************************************************************)
(* The external tool's output.  A text is the record of what the parser    *)
(* reads of it.  text: the text as printed.  json: what JSON.parse yields  *)
(* of the span from the first "{" to the last "}": "invalid" when it       *)
(* fails, "object" when it yields payload ("none" when there is no span).  *)
(* signals: the liveness patterns of parseGatewayOutput the text matches.  *)
(* url: the URL the text shows (after Dashboard:, else the first).         *)
(***************************************************************************)
NoGateway == [present |-> FALSE, reachable |-> FALSE, url |-> NoUrl, error |-> Undefined]

NoRpc == [present |-> FALSE, ok |-> FALSE, url |-> NoUrl]

\* an object none of whose fields the parser knows
EmptyPayload ==
    [running |-> "absent", url |-> NoUrl, error |-> Undefined,
     gateway |-> NoGateway, rpc |-> NoRpc]

EmptyText ==
    [json |-> "none", payload |-> EmptyPayload, signals |-> {}, url |-> NoUrl,
     text |-> << >>]

\* the text of one JSON object and a line end
JsonText(payload) ==
    [EmptyText EXCEPT !.json = "object", !.payload = payload,
                      !.text = <<"{", "..", "}", "\n">>]

WsUrl == <<"ws://", "127.0.0.1:18789">>

WssUrl == <<"wss://", "h:1", "/">>

HttpUrl == <<"http://", "127.0.0.1:18789", "/">>

\* {"running":true,"url":"ws://127.0.0.1:18789"}
TextRunning == JsonText([EmptyPayload EXCEPT !.running = "true", !.url = WsUrl])

\* {"running":true,"url":"wss://h:1/"}
TextRunningWss == JsonText([EmptyPayload EXCEPT !.running = "true", !.url = WssUrl])

\* {"running":false,"error":"gateway is not running"}
TextStopped ==
    JsonText([EmptyPayload EXCEPT !.running = "false",
                                  !.error = <<"gateway is not running">>])

\* {"running":false,"url":"ws://127.0.0.1:18789"}
TextStoppedUrl == JsonText([EmptyPayload EXCEPT !.running = "false", !.url = WsUrl])

\* {"running":false,"error":""}
TextStoppedBare == JsonText([EmptyPayload EXCEPT !.running = "false", !.error = << >>])

\* {"gateway":{"reachable":true,"url":"ws://127.0.0.1:18789"}}
TextGatewayUp ==
    JsonText([EmptyPayload EXCEPT
                 !.gateway = [present |-> TRUE, reachable |-> TRUE, url |-> WsUrl,
                              error |-> Undefined]])

\* {"rpc":{"ok":false}}
TextRpcDown ==
    JsonText([EmptyPayload EXCEPT !.rpc = [present |-> TRUE, ok |-> FALSE, url |-> NoUrl]])

\* {"version":"1.2.3"}
TextOtherJson == JsonText(EmptyPayload)

\* Gateway ... RPC probe: ok ... Dashboard: http://127.0.0.1:18789/
TextProbeOk ==
    [EmptyText EXCEPT !.signals = {"rpcProbe"}, !.url = HttpUrl,
                      !.text = <<"RPC probe: ok", "\n">>]

\* Gateway is not running, between a leading blank and a line end
TextNotRunning == [EmptyText EXCEPT !.text = <<" ", "Gateway is not running", "\n">>]

\* a line end only
TextBlank == [EmptyText EXCEPT !.text = <<"\n">>]

\* {"error":"port in use"}, the output of a failed `gateway start --json`
TextStartError == JsonText([EmptyPayload EXCEPT !.error = <<"port in use", " ">>])

\* {"error":" "}
TextStartBlank == JsonText([EmptyPayload EXCEPT !.error = <<" ">>])

\* what a status command of the tool may print
StatusTexts ==
    {EmptyText, TextRunning, TextStopped, TextStoppedUrl, TextStoppedBare,
     TextGatewayUp, TextRpcDown, TextOtherJson, TextProbeOk, TextNotRunning}

\* what `gateway start --json` may print
StartTexts == {EmptyText, TextStartError, TextStartBlank, TextNotRunning}

(***************************************************************************)
(* GatewayService: the status parser (gatewayService.ts lines 168-273)     *)
(***************************************************************************)
GatewayStatus(running, url, error) == [running |-> running, url |-> url, error |-> error]

\* the result of a parser that may return null
Null == [null |-> TRUE, status |-> GatewayStatus(FALSE, NoUrl, Undefined)]

NotNull(status) == [null |-> FALSE, status |-> status]

\* toDashboardUrl (lines 262-273)
toDashboardUrl(url) ==
    IF url = NoUrl THEN NoUrl
    ELSE IF Head(url) = "ws://" THEN <<"http://">> \o Tail(url) \o <<"/">>
    ELSE IF Head(url) = "wss://" THEN <<"https://">> \o Tail(url) \o <<"/">>
    ELSE url

\* parseJsonObject (lines 235-253): whether it returns an object
HasObject(raw) ==
    LET text       == Trim(raw.text)
        firstBrace == IndexOf(text, "{")
        lastBrace  == LastIndexOf(text, "}")
    IN  /\ text # << >>
        /\ ~(firstBrace = 0 \/ lastBrace = 0 \/ lastBrace <= firstBrace)
        /\ raw.json = "object"

\* parseStatusOutput looking at the rpc field before the gateway field
parseStatusOutputRpcFirst(raw) ==
    IF ~HasObject(raw) THEN Null
    ELSE LET payload == raw.payload
             gateway == payload.gateway
             rpc     == payload.rpc
         IN  IF payload.running \in {"true", "false"}
             THEN NotNull(GatewayStatus(payload.running = "true",
                                        toDashboardUrl(payload.url),
                                        payload.error))
             ELSE IF rpc.present
             THEN NotNull(GatewayStatus(rpc.ok,
                                        IF rpc.ok THEN toDashboardUrl(rpc.url) ELSE NoUrl,
                                        Undefined))
             ELSE IF gateway.present
             THEN NotNull(GatewayStatus(gateway.reachable,
                                        IF gateway.reachable
                                        THEN toDashboardUrl(gateway.url) ELSE NoUrl,
                                        IF gateway.reachable
                                        THEN Undefined ELSE gateway.error))
             ELSE Null

\* parseStatusOutput (lines 168-207)
parseStatusOutput(raw) ==
    IF ~HasObject(raw) THEN Null
    ELSE LET payload == raw.payload
             gateway == payload.gateway
             rpc     == payload.rpc
         IN  IF payload.running \in {"true", "false"}
             THEN NotNull(GatewayStatus(payload.running = "true",
                                        toDashboardUrl(payload.url),
                                        payload.error))
             ELSE IF gateway.present
             THEN NotNull(GatewayStatus(gateway.reachable,
                                        IF gateway.reachable
                                        THEN toDashboardUrl(gateway.url) ELSE NoUrl,
                                        IF gateway.reachable
                                        THEN Undefined ELSE gateway.error))
             ELSE IF rpc.present
             THEN NotNull(GatewayStatus(rpc.ok,
                                        IF rpc.ok THEN toDashboardUrl(rpc.url) ELSE NoUrl,
                                        Undefined))
             ELSE Null

\* parseGatewayOutput reporting the text as printed, not trimmed
parseGatewayOutputUntrimmed(raw) ==
    LET structured == parseStatusOutput(raw)
        isRunning  == raw.signals # {}
    IN  IF ~structured.null THEN structured.status
        ELSE IF raw.text = << >> THEN GatewayStatus(FALSE, NoUrl, Undefined)
        ELSE GatewayStatus(isRunning,
                           IF isRunning THEN toDashboardUrl(raw.url) ELSE NoUrl,
                           IF isRunning THEN Undefined ELSE raw.text)

\* parseGatewayOutput (lines 209-233)
parseGatewayOutput(raw) ==
    LET structured == parseStatusOutput(raw)
        text       == Trim(raw.text)
        isRunning  == raw.signals # {}
    IN  IF ~structured.null THEN structured.status
        ELSE IF text = << >> THEN GatewayStatus(FALSE, NoUrl, Undefined)
        ELSE GatewayStatus(isRunning,
                           IF isRunning THEN toDashboardUrl(raw.url) ELSE NoUrl,
                           IF isRunning THEN Undefined ELSE text)

(***************************************************************************)
(* GatewayService: start, stop, status (gatewayService.ts lines 8-166).    *)
(* A call is a record: op, pc (the script whose result it awaits), phase   *)
(* (which readGatewayStatus of start() it is in), startError, result, and  *)
(* its history: cmds (the scripts it has run), located (whether the        *)
(* executable was found), first (what its first readGatewayStatus          *)
(* returned) and out (what the status query of the stop script printed).   *)
(***************************************************************************)
GwIdle ==
    [op |-> "none", pc |-> "idle", phase |-> "none", startError |-> Undefined,
     result |-> GatewayStatus(FALSE, NoUrl, Undefined),
     cmds |-> << >>, located |-> "unknown", first |-> Null, out |-> EmptyText]

GwOps == {"start", "stop", "status"}

\* the scripts run through wslService.runBash
GwAwaits == {"resolve", "status", "gatewayStatus", "gatewayStart", "launch", "stopScript"}

\* await this.wslService.runBash(script)
Issue(c, cmd) == [c EXCEPT !.pc = cmd, !.cmds = Append(@, cmd)]

\* return status
Return(c, status) == [c EXCEPT !.pc = "done", !.result = status]

NotFoundError == <<"openclaw CLI not found in WSL.">>

\* resolveOpenClawPath lines 161-165: << >> stands for null
resolveOpenClawPath(res) == IF res.exitCode # 0 THEN << >> ELSE Trim(res.stdout)

\* a ?? b ?? c
Coalesce(a, b, c) == IF a # Undefined THEN a ELSE IF b # Undefined THEN b ELSE c

\* start() and status() after readGatewayStatus returned status, with the
\* first status check of start() left out
AfterReadNoCheck(c, status) ==
    LET c1 == IF c.first.null THEN [c EXCEPT !.first = NotNull(status)] ELSE c
    IN  IF c.op = "status" THEN Return(c1, status)
        ELSE IF c.phase = "current" THEN Issue(c1, "gatewayStart")
        ELSE IF status.running THEN Return(c1, status)
        ELSE IF c.phase = "afterServiceStart" THEN Issue(c1, "launch")
        ELSE Return(c1, GatewayStatus(FALSE, NoUrl,
                        Coalesce(c.startError, status.error,
                                 <<"Failed to start OpenClaw gateway.">>)))

\* start() (lines 17-20, 37-40, 53-61) and status() (line 115) after
\* readGatewayStatus returned status
AfterRead(c, status) ==
    LET c1 == IF c.first.null THEN [c EXCEPT !.first = NotNull(status)] ELSE c
    IN  IF c.op = "status" THEN Return(c1, status)
        ELSE IF status.running THEN Return(c1, status)
        ELSE IF c.phase = "current" THEN Issue(c1, "gatewayStart")
        ELSE IF c.phase = "afterServiceStart" THEN Issue(c1, "launch")
        ELSE Return(c1, GatewayStatus(FALSE, NoUrl,
                        Coalesce(c.startError, status.error,
                                 <<"Failed to start OpenClaw gateway.">>)))

\* the calls after resolveOpenClawPath, without the test for null
AfterResolveNoCheck(c, res) ==
    LET c1 == [c EXCEPT !.located = IF res.exitCode = 0 /\ Trim(res.stdout) # << >>
                                    THEN "yes" ELSE "no"]
    IN  IF c.op = "stop" THEN Issue(c1, "stopScript")
        ELSE Issue([c1 EXCEPT !.phase = "current"], "status")

\* start() lines 9-17, stop() lines 65-70, status() lines 107-115
AfterResolve(c, res) ==
    LET path == resolveOpenClawPath(res)
        c1   == [c EXCEPT !.located = IF res.exitCode = 0 /\ Trim(res.stdout) # << >>
                                      THEN "yes" ELSE "no"]
    IN  IF path = << >>
        THEN IF c.op = "stop"
             THEN Return(c1, GatewayStatus(FALSE, NoUrl, Undefined))
             ELSE Return(c1, GatewayStatus(FALSE, NoUrl, NotFoundError))
        ELSE IF c.op = "stop" THEN Issue(c1, "stopScript")
        ELSE Issue([c1 EXCEPT !.phase = "current"], "status")

\* readGatewayStatus running the gateway status command whatever the
\* general status command printed
AfterStatusBoth(c, raw) == Issue(c, "gatewayStatus")

\* readGatewayStatus lines 119-139: the general status command has printed raw
AfterStatus(c, raw) ==
    LET structured == parseStatusOutput(raw)
    IN  IF ~structured.null THEN AfterRead(c, structured.status)
        ELSE Issue(c, "gatewayStatus")

\* readGatewayStatus line 140: the gateway status command has printed raw
AfterGatewayStatus(c, raw) == AfterRead(c, parseGatewayOutput(raw))

\* start() lines 31-37: `gateway start --json` has printed raw
AfterGatewayStart(c, raw) ==
    LET startError == IF HasObject(raw) /\ raw.payload.error # Undefined
                             /\ Trim(raw.payload.error) # << >>
                      THEN Trim(raw.payload.error) ELSE Undefined
    IN  Issue([c EXCEPT !.startError = startError, !.phase = "afterServiceStart"],
              "status")

\* start() taking the launch for a start, without the status query
AfterLaunchTrusted(c) == Return(c, GatewayStatus(TRUE, NoUrl, Undefined))

\* start() lines 42-53: the detached `gateway run` launch script has ended
AfterLaunch(c) == Issue([c EXCEPT !.phase = "afterFallbackStart"], "status")

\* stop() lines 88-103: the stop script has ended with res
AfterStopScript(c, res) ==
    LET parsed == parseStatusOutput(res.stdout)
        c1     == [c EXCEPT !.out = res.stdout]
    IN  IF res.exitCode # 0
        THEN Return(c1, GatewayStatus(FALSE, NoUrl,
                        IF res.stderr # << >> THEN res.stderr
                        ELSE <<"Gateway stop returned an error.">>))
        ELSE IF ~parsed.null /\ parsed.status.running
        THEN Return(c1, [parsed.status EXCEPT
                            !.error = <<"Gateway still appears to be running.">>])
        ELSE Return(c1, GatewayStatus(FALSE,
                        IF parsed.null THEN NoUrl ELSE parsed.status.url,
                        Undefined))

\* what the locating script may end with: the path found, nothing found
\* (exit 1), an empty answer, and exit 1 after the login shell printed a line
ResolveResults ==
    {[exitCode |-> 0, stdout |-> <<"/usr/local/bin/openclaw", "\n">>],
     [exitCode |-> 1, stdout |-> << >>],
     [exitCode |-> 0, stdout |-> <<"\n">>],
     [exitCode |-> 1, stdout |-> <<"motd", "\n">>]}

\* what the stop script may end with: it ran to its last line, which prints
\* the tool's status and exits 0, or the shell failed before
StopResults ==
    {[exitCode |-> 0, stdout |-> raw, stderr |-> << >>] : raw \in StatusTexts}
    \cup {[exitCode |-> 1, stdout |-> EmptyText, stderr |-> e] : e \in {<< >>, <<"wsl: failed">>}}

\* a caller (ipc.ts, main.ts:235, providerSupervisor.ts:79-80) calls
\* gateway.start(), stop() or status(): to the await of resolveOpenClawPath
GwBegin(op) ==
    /\ gw.pc \in {"idle", "done", "rejected"}
    /\ gw' = Issue([GwIdle EXCEPT !.op = op], "resolve")
    /\ gwPrev' = gw
    /\ UNCHANGED notGwVars

GwResolveReturns(res) ==
    /\ gw.pc = "resolve"
    /\ gw' = AfterResolve(gw, res)
    /\ UNCHANGED <<gwPrev, notGwVars>>

GwStatusReturns(raw) ==
    /\ gw.pc = "status"
    /\ gw' = AfterStatus(gw, raw)
    /\ UNCHANGED <<gwPrev, notGwVars>>

GwGatewayStatusReturns(raw) ==
    /\ gw.pc = "gatewayStatus"
    /\ gw' = AfterGatewayStatus(gw, raw)
    /\ UNCHANGED <<gwPrev, notGwVars>>

GwGatewayStartReturns(raw) ==
    /\ gw.pc = "gatewayStart"
    /\ gw' = AfterGatewayStart(gw, raw)
    /\ UNCHANGED <<gwPrev, notGwVars>>

GwLaunchReturns ==
    /\ gw.pc = "launch"
    /\ gw' = AfterLaunch(gw)
    /\ UNCHANGED <<gwPrev, notGwVars>>

GwStopScriptReturns(res) ==
    /\ gw.pc = "stopScript"
    /\ gw' = AfterStopScript(gw, res)
    /\ UNCHANGED <<gwPrev, notGwVars>>

\* runProcess rejects (processRunner.ts lines 35-42 the timeout, 52-59 the
\* spawn error): runBash rejects, and the method, which catches nothing,
\* rejects
GwCommandRejects ==
    /\ gw.pc \in GwAwaits
    /\ gw' = [gw EXCEPT !.pc = "rejected"]
    /\ UNCHANGED <<gwPrev, notGwVars>>

(***************************************************************************)
(* The functions applied on their own: the status parser on the texts the  *)
(* tool may print.                                                         *)
(***************************************************************************)
FnIdle == [name |-> "none", arg |-> << >>, done |-> FALSE, res |-> << >>]

\* a call of the function name with argument arg
FnCall(name, arg) == [name |-> name, arg |-> arg, done |-> FALSE, res |-> << >>]

\* {oops}: a span that JSON.parse rejects
TextInvalidJson == [EmptyText EXCEPT !.json = "invalid", !.text = <<"{", "oops", "}">>]

\* }{ : braces, but no span from a first { to a later }
TextBracesReversed == [EmptyText EXCEPT !.text = <<"}", "{">>]

\* {"running":false,"gateway":{"reachable":true,"url":"ws://127.0.0.1:18789"},
\*  "rpc":{"ok":true,"url":"wss://h:1/"}}
TextStoppedOthersUp ==
    [JsonText([EmptyPayload EXCEPT
                  !.running = "false",
                  !.gateway = [present |-> TRUE, reachable |-> TRUE, url |-> WsUrl,
                               error |-> Undefined],
                  !.rpc = [present |-> TRUE, ok |-> TRUE, url |-> WssUrl]])
        EXCEPT !.signals = {"reachable", "ok"}, !.url = WsUrl]

\* {"gateway":{"reachable":false,"url":"ws://127.0.0.1:18789","error":"refused"},
\*  "rpc":{"ok":true,"url":"wss://h:1/"}}
TextGatewayDownRpcOk ==
    [JsonText([EmptyPayload EXCEPT
                  !.gateway = [present |-> TRUE, reachable |-> FALSE, url |-> WsUrl,
                               error |-> <<"refused">>],
                  !.rpc = [present |-> TRUE, ok |-> TRUE, url |-> WssUrl]])
        EXCEPT !.signals = {"ok"}, !.url = WsUrl]

\* {"rpc":{"ok":true,"url":"wss://h:1/"}}
TextRpcOk ==
    [JsonText([EmptyPayload EXCEPT !.rpc = [present |-> TRUE, ok |-> TRUE, url |-> WssUrl]])
        EXCEPT !.signals = {"ok"}, !.url = WssUrl]

\* {"rpc":{"ok":false,"url":"ws://127.0.0.1:18789"}} RPC probe: ok
TextRpcDownProbeOk ==
    [JsonText([EmptyPayload EXCEPT !.rpc = [present |-> TRUE, ok |-> FALSE, url |-> WsUrl]])
        EXCEPT !.signals = {"rpcProbe"}, !.url = WsUrl]

\* {"ok":true}: an object with none of the fields parseStatusOutput knows
TextOkJson == [JsonText(EmptyPayload) EXCEPT !.signals = {"ok"}]

\* the texts in which several shapes are present
MixedTexts ==
    {TextStoppedOthersUp, TextGatewayDownRpcOk, TextRpcOk, TextRpcDownProbeOk, TextOkJson}

\* t between the lines or blanks pre and post
Wrap(t, pre, post) == [t EXCEPT !.text = pre \o @ \o post]

\* the texts the parser is applied to
ParserTexts ==
    {Wrap(t, pre, post) :
        t \in StatusTexts \cup StartTexts \cup MixedTexts
              \cup {TextRunningWss, TextBlank, TextInvalidJson, TextBracesReversed},
        pre \in {<< >>, <<" ">>, <<"warning: slow", "\n">>},
        post \in {<< >>, <<"\n">>}}

(***************************************************************************)
(* wslService.ts: bashQuote, and the shell that reads what it returns.     *)
(* Here a string is the sequence of its characters.                        *)
(***************************************************************************)
QuoteChars == {"t", "'", " ", "\\"}

\* the strings of at most MaxLen characters
QuoteValues == UNION {[1..n -> QuoteChars] : n \in 0..MaxLen}

RECURSIVE ReplaceQuotes(_, _)
\* value.replace(/'/g, by)
ReplaceQuotes(value, by) ==
    IF value = << >> THEN << >>
    ELSE (IF Head(value) = "'" THEN by ELSE <<Head(value)>>)
         \o ReplaceQuotes(Tail(value), by)

\* bashQuote that wraps the value and escapes nothing
bashQuoteNoEscape(value) == <<"'">> \o value \o <<"'">>

\* bashQuote (lines 16-18)
bashQuote(value) ==
    <<"'">> \o ReplaceQuotes(value, <<"'", "\\", "'", "'">>) \o <<"'">>

RECURSIVE ShellScan(_, _, _, _, _, _)
\* the shell's word splitting of s from position i: outside quotes a quote
\* opens a literal, a backslash keeps the next character, a blank ends the
\* word; inside quotes every character up to the next quote is kept
ShellScan(s, i, mode, word, started, words) ==
    IF i > Len(s)
    THEN IF mode = "quoted" THEN Append(words, <<"<unterminated>">>)
         ELSE IF started THEN Append(words, word) ELSE words
    ELSE IF mode = "quoted"
    THEN IF s[i] = "'" THEN ShellScan(s, i + 1, "plain", word, TRUE, words)
         ELSE ShellScan(s, i + 1, "quoted", Append(word, s[i]), TRUE, words)
    ELSE IF s[i] = "'" THEN ShellScan(s, i + 1, "quoted", word, TRUE, words)
    ELSE IF s[i] = "\\"
    THEN IF i < Len(s)
         THEN ShellScan(s, i + 2, "plain", Append(word, s[i + 1]), TRUE, words)
         ELSE ShellScan(s, i + 1, "plain", word, started, words)
    ELSE IF s[i] = " "
    THEN IF started THEN ShellScan(s, i + 1, "plain", << >>, FALSE, Append(words, word))
         ELSE ShellScan(s, i + 1, "plain", word, FALSE, words)
    ELSE ShellScan(s, i + 1, "plain", Append(word, s[i]), TRUE, words)

\* the arguments bash reads in s
ShellWords(s) == ShellScan(s, 1, "plain", << >>, FALSE, << >>)

\* bashQuote(value)
ApplyBashQuote ==
    /\ fn.name = "bashQuote"
    /\ ~fn.done
    /\ fn' = [fn EXCEPT !.done = TRUE, !.res = bashQuote(fn.arg)]
    /\ UNCHANGED notFnVars

\* the health lists of at most MaxEntries entries, in any order, with
\* providers missing or repeated
HealthLists ==
    UNION {[1..n -> [provider : Provider, ok : BOOLEAN]] : n \in 0..MaxEntries}

\* chooseBestProvider(health)
ApplyChooseBestProvider ==
    /\ fn.name = "chooseBestProvider"
    /\ ~fn.done
    /\ fn' = [fn EXCEPT !.done = TRUE, !.res = chooseBestProvider(fn.arg)]
    /\ UNCHANGED notFnVars

(***************************************************************************)
(* profile.ts: resolvePreferredProviders and resolveDefaultModel.  A       *)
(* provider list is a sequence of provider ids, in any order, with         *)
(* providers missing or repeated.  A model is a string, "<undefined>" the  *)
(* omitted preferredModel.                                                 *)
(***************************************************************************)
MODEL_MAP ==
    [p \in Provider |->
        CASE p = "deepseek"   -> "deepseek-chat"
          [] p = "openai"     -> "gpt-4.1-mini"
          [] p = "anthropic"  -> "claude-3-5-haiku-latest"
          [] p = "perplexity" -> "sonar"]

\* the filter applied to the argument: the result in input order
resolvePreferredProvidersInInputOrder(configuredProviders) ==
    SelectSeq(configuredProviders,
              LAMBDA provider : provider \in {"deepseek", "openai", "anthropic"})

\* ordered.filter((provider) => configuredProviders.includes(provider))
resolvePreferredProviders(configuredProviders) ==
    SelectSeq(<<"deepseek", "openai", "anthropic">>,
              LAMBDA provider : \E k \in DOMAIN configuredProviders :
                                   configuredProviders[k] = provider)

\* `if (preferredModel)` is false for undefined and for the empty string
resolveDefaultModel(configuredProviders, preferredModel) ==
    IF preferredModel \notin {"<undefined>", ""} THEN preferredModel
    ELSE LET preferredProviders == resolvePreferredProviders(configuredProviders)
         IN  IF Len(preferredProviders) > 0 THEN MODEL_MAP[preferredProviders[1]]
             ELSE MODEL_MAP["deepseek"]

\* the provider lists of at most MaxEntries ids
ProviderLists == UNION {[1..n -> Provider] : n \in 0..MaxEntries}

\* the arguments of resolveDefaultModel: a list and no, an empty or a
\* preferred model
DefaultModelArgs ==
    {<<list, model>> : list \in ProviderLists,
                       model \in {"<undefined>", "", "sonar-pro"}}

\* resolvePreferredProviders(configuredProviders)
ApplyResolvePreferredProviders ==
    /\ fn.name = "resolvePreferredProviders"
    /\ ~fn.done
    /\ fn' = [fn EXCEPT !.done = TRUE, !.res = resolvePreferredProviders(fn.arg)]
    /\ UNCHANGED notFnVars

\* resolveDefaultModel(configuredProviders, preferredModel)
ApplyResolveDefaultModel ==
    /\ fn.name = "resolveDefaultModel"
    /\ ~fn.done
    /\ fn' = [fn EXCEPT !.done = TRUE,
                        !.res = resolveDefaultModel(fn.arg[1], fn.arg[2])]
    /\ UNCHANGED notFnVars

\* the argument lists of shouldFailover: a count, with or without a threshold
FailoverArgs ==
    {<<c>> : c \in 0..MaxCount} \cup {<<c, t>> : c \in 0..MaxCount, t \in 0..MaxCount}

\* shouldFailover(...args)
ApplyShouldFailover ==
    /\ fn.name = "shouldFailover"
    /\ ~fn.done
    /\ fn' = [fn EXCEPT !.done = TRUE,
                        !.res = shouldFailover(fn.arg[1], ThresholdOf(fn.arg))]
    /\ UNCHANGED notFnVars

\* this.parseGatewayOutput(raw)
ApplyParseGatewayOutput ==
    /\ fn.name = "parseGatewayOutput"
    /\ ~fn.done
    /\ fn' = [fn EXCEPT !.done = TRUE, !.res = parseGatewayOutput(fn.arg)]
    /\ UNCHANGED notFnVars

(***************************************************************************)
(* CredentialService: verify and runProbe (credentialService.ts lines      *)
(* 204-363).  A call is a record: provider, key, pc, requested (fetch was  *)
(* called), timeout (the 12 s abort timer: none, armed, fired, cleared),   *)
(* outcome and status (how the request ended), result.                     *)
(***************************************************************************)
\* no statusCode in a VerifyResult, no status received
NoStatus == 0

VerifyResult(ok, canSkip, provider, statusCode, message) ==
    [ok |-> ok, canSkip |-> canSkip, provider |-> provider,
     statusCode |-> statusCode, message |-> message]

VfIdle ==
    [provider |-> None, key |-> << >>, pc |-> "idle", requested |-> FALSE,
     timeout |-> "none", outcome |-> "none", status |-> NoStatus,
     result |-> VerifyResult(FALSE, FALSE, None, NoStatus, << >>)]

\* the providers verify has a case for (lines 218-225)
ProbedProviders == {"deepseek", "openai", "anthropic", "perplexity"}

\* the providers verify is called with: the ProviderIds and one that is none
VerifyProviders == Provider \cup {"mistral"}

VerifyKeys == {<< >>, <<" ">>, <<"\n", " ">>, <<"sk-live">>, <<" ", "sk-live", "\n">>}

HttpStatuses == {200, 204, 401, 403, 404, 429, 500, 503}

\* the key test that does not trim
IsBlankKeyUntrimmed(key) == key = << >>

\* lines 205-206: const cleaned = key.trim(); if (!cleaned)
IsBlankKey(key) == Trim(key) = << >>

\* response.ok
ResponseOk(status) == status \in 200..299

\* runProbe that lets a server error be skipped
ProbeResultSkipServerError(provider, outcome, status) ==
    IF outcome = "response"
    THEN IF ResponseOk(status)
         THEN VerifyResult(TRUE, FALSE, provider, status, <<"Key verified.">>)
         ELSE VerifyResult(FALSE, status >= 500, provider, status,
                           <<"Invalid key or provider response.", "HTTP", status>>)
    ELSE VerifyResult(FALSE, TRUE, provider, NoStatus, <<outcome>>)

\* runProbe lines 326-359: the result for a request that ended with outcome
ProbeResult(provider, outcome, status) ==
    IF outcome = "response"
    THEN IF ResponseOk(status)
         THEN VerifyResult(TRUE, FALSE, provider, status, <<"Key verified.">>)
         ELSE VerifyResult(FALSE, FALSE, provider, status,
                  <<IF status \in {401, 403}
                    THEN "Authentication failed. Check key value and permissions."
                    ELSE "Invalid key or provider response.",
                    "HTTP", status>>)
    ELSE VerifyResult(FALSE, TRUE, provider, NoStatus, <<outcome>>)

\* verify(provider, key) up to its return or to the await of fetch
VerifyBegin(provider, key) ==
    /\ vf.pc \in {"idle", "done"}
    /\ vf' = IF IsBlankKey(key)
             THEN [VfIdle EXCEPT !.provider = provider, !.key = key, !.pc = "done",
                      !.result = VerifyResult(FALSE, FALSE, provider, NoStatus,
                                              <<"API key is required.">>)]
             ELSE IF provider \notin ProbedProviders
             THEN [VfIdle EXCEPT !.provider = provider, !.key = key, !.pc = "done",
                      !.result = VerifyResult(FALSE, FALSE, provider, NoStatus,
                                              <<"Unsupported provider.">>)]
             ELSE [VfIdle EXCEPT !.provider = provider, !.key = key, !.pc = "fetch",
                      !.requested = TRUE, !.timeout = "armed"]
    /\ UNCHANGED notVfVars

\* the request has ended with outcome: the result, and clearTimeout in finally
VfEnd(outcome, status) ==
    [vf EXCEPT !.pc = "done", !.outcome = outcome, !.status = status,
               !.timeout = IF @ = "armed" THEN "cleared" ELSE @,
               !.result = ProbeResult(vf.provider, outcome, status)]

\* fetch resolves with a response (line 322)
FetchResponds(status) ==
    /\ vf.pc = "fetch"
    /\ vf.timeout = "armed"
    /\ vf' = VfEnd("response", status)
    /\ UNCHANGED notVfVars

\* fetch rejects: the network failed
FetchFails ==
    /\ vf.pc = "fetch"
    /\ vf.timeout = "armed"
    /\ vf' = VfEnd("threw", NoStatus)
    /\ UNCHANGED notVfVars

\* the 12 s timer fires: controller.abort() (line 319)
ProbeTimeout ==
    /\ vf.pc = "fetch"
    /\ vf.timeout = "armed"
    /\ vf' = [vf EXCEPT !.timeout = "fired"]
    /\ UNCHANGED notVfVars

\* fetch rejects with the abort
FetchAborted ==
    /\ vf.pc = "fetch"
    /\ vf.timeout = "fired"
    /\ vf' = VfEnd("timedOut", NoStatus)
    /\ UNCHANGED notVfVars

(***************************************************************************)
(* processRunner.ts: runProcess (lines 16-80).  proc is one call: child    *)
(* (none, alive, errored, closed), timer (none, armed, fired, cleared),    *)
(* finished, stdout and stderr as collected, signals sent to the child,    *)
(* promise (pending, resolved, rejected) with its value, and log, the      *)
(* order in which the call killed, resolved and rejected.                  *)
(***************************************************************************)
ProcIdle ==
    [child |-> "none", timer |-> "none", finished |-> FALSE,
     stdout |-> << >>, stderr |-> << >>, signals |-> << >>,
     promise |-> "pending", value |-> << >>, log |-> << >>]

\* resolve(value) and reject(value) of a promise settle it once
Settle(p, how, value) ==
    IF p.promise = "pending"
    THEN [p EXCEPT !.promise = how, !.value = value, !.log = Append(@, how)]
    ELSE p

\* the timer callback that rejects and leaves the child running
OnTimeoutNoKill(p) ==
    IF p.finished THEN [p EXCEPT !.timer = "fired"]
    ELSE Settle([p EXCEPT !.timer = "fired", !.finished = TRUE],
                "rejected", <<"Command timed out">>)

\* lines 35-42: the timer callback
OnTimeout(p) ==
    IF p.finished THEN [p EXCEPT !.timer = "fired"]
    ELSE Settle([p EXCEPT !.timer = "fired", !.finished = TRUE,
                          !.signals = Append(@, "SIGTERM"),
                          !.log = Append(@, "kill")],
                "rejected", <<"Command timed out">>)

\* an error handler that rejects without setting finished or clearing the timer
OnErrorUnflagged(p) ==
    Settle([p EXCEPT !.child = "errored"], "rejected", <<"spawn error">>)

\* lines 52-59: child.on("error")
OnError(p) ==
    IF p.finished THEN [p EXCEPT !.child = "errored"]
    ELSE Settle([p EXCEPT !.child = "errored", !.finished = TRUE,
                          !.timer = "cleared"],
                "rejected", <<"spawn error">>)

\* lines 61-73: child.on("close")
OnClose(p, code) ==
    IF p.finished THEN [p EXCEPT !.child = "closed"]
    ELSE Settle([p EXCEPT !.child = "closed", !.finished = TRUE,
                          !.timer = "cleared"],
                "resolved", <<p.stdout, p.stderr, code>>)

\* runProcess(command, args, options): spawn, the timer, stdin ended
RunProcess ==
    /\ proc.child = "none"
    /\ proc' = [ProcIdle EXCEPT !.child = "alive", !.timer = "armed"]
    /\ UNCHANGED notProcVars

\* the child writes a chunk to stream (lines 44-50)
ChildData(stream, chunk) ==
    /\ proc.child = "alive"
    /\ Len(proc.stdout) + Len(proc.stderr) < MaxChunks
    /\ proc' = IF stream = "stdout" THEN [proc EXCEPT !.stdout = Append(@, chunk)]
               ELSE [proc EXCEPT !.stderr = Append(@, chunk)]
    /\ UNCHANGED notProcVars

\* the child could not be spawned or signalled: it emits error
ChildError ==
    /\ proc.child = "alive"
    /\ proc' = OnError(proc)
    /\ UNCHANGED notProcVars

\* the child has exited and its streams have closed: it emits close, after
\* an error too; code is the exit code, -1 for `code ?? -1`
ChildClose(code) ==
    /\ proc.child \in {"alive", "errored"}
    /\ proc' = OnClose(proc, code)
    /\ UNCHANGED notProcVars

\* timeoutMs have passed since the call and the timer is not cleared
TimerExpires ==
    /\ proc.timer = "armed"
    /\ proc' = OnTimeout(proc)
    /\ UNCHANGED notProcVars

(***************************************************************************)
(* GatewayService called by two callers (ipc.ts and main.ts for the user,  *)
(* providerSupervisor.ts:79-80 for the failover restart): the calls gw and *)
(* gwB.  race is their history.  doubleLaunch: a start() ran the launch    *)
(* script while the other, a start() in progress, had run it too.  stopIn: *)
(* the stop script in progress was started while the other call's launch   *)
(* script was running.  stopBetween: such a stop script has ended while    *)
(* that launch script was still running.                                   *)
(***************************************************************************)
Slots == {1, 2}

Call(s) == IF s = 1 THEN gw ELSE gwB

Other(s) == Call(3 - s)

RaceInit == [doubleLaunch |-> FALSE, stopIn |-> FALSE, stopBetween |-> FALSE]

Launched(c) == \E k \in DOMAIN c.cmds : c.cmds[k] = "launch"

\* the history after the call old of a caller has become new
RaceAfter(old, new, other) ==
    [doubleLaunch |->
         \/ race.doubleLaunch
         \/ /\ new.pc = "launch" /\ old.pc # "launch"
            /\ other.op = "start" /\ other.pc \in GwAwaits /\ Launched(other),
     stopIn |->
         IF new.pc = "stopScript" /\ old.pc # "stopScript"
         THEN other.op = "start" /\ other.pc = "launch"
         ELSE IF old.pc \in {"stopScript", "launch"} THEN FALSE
         ELSE race.stopIn,
     stopBetween |->
         \/ race.stopBetween
         \/ /\ old.pc = "stopScript" /\ new.pc = "done"
            /\ race.stopIn /\ other.pc = "launch"]

\* the call of caller s becomes new
RaceStep(s, new) ==
    /\ gw' = IF s = 1 THEN new ELSE gw
    /\ gwB' = IF s = 2 THEN new ELSE gwB
    /\ race' = RaceAfter(Call(s), new, Other(s))
    /\ UNCHANGED notRaceVars

\* a caller may call only while no call of the other is in progress
MayBeginExclusive(c, other) ==
    c.pc \in {"idle", "done", "rejected"} /\ other.pc \notin GwAwaits

\* start(), stop() and status() take no lock and keep no flag (lines 8-9,
\* 64-65, 106-107): a caller may call whenever its last call has ended
MayBegin(c, other) == c.pc \in {"idle", "done", "rejected"}

RaceBegin(s, op) ==
    /\ MayBegin(Call(s), Other(s))
    /\ RaceStep(s, Issue([GwIdle EXCEPT !.op = op], "resolve"))

RaceResolveReturns(s, res) ==
    /\ Call(s).pc = "resolve"
    /\ RaceStep(s, AfterResolve(Call(s), res))

RaceStatusReturns(s, raw) ==
    /\ Call(s).pc = "status"
    /\ RaceStep(s, AfterStatus(Call(s), raw))

RaceGatewayStatusReturns(s, raw) ==
    /\ Call(s).pc = "gatewayStatus"
    /\ RaceStep(s, AfterGatewayStatus(Call(s), raw))

RaceGatewayStartReturns(s, raw) ==
    /\ Call(s).pc = "gatewayStart"
    /\ RaceStep(s, AfterGatewayStart(Call(s), raw))

RaceLaunchReturns(s) ==
    /\ Call(s).pc = "launch"
    /\ RaceStep(s, AfterLaunch(Call(s)))

RaceStopScriptReturns(s, res) ==
    /\ Call(s).pc = "stopScript"
    /\ RaceStep(s, AfterStopScript(Call(s), res))

RaceCommandRejects(s) ==
    /\ Call(s).pc \in GwAwaits
    /\ RaceStep(s, [Call(s) EXCEPT !.pc = "rejected"])

\* what the tool prints while two calls are in progress
RaceTexts == {TextRunning, TextStopped, TextNotRunning}

(***************************************************************************)
(* DiagnosticsService.healthCheckProviders (diagnosticsService.ts lines    *)
(* 45-68).  A call is a record: pc (what it awaits), i (the index in       *)
(* HEALTH_PROVIDERS of the provider it is at), health (the list built so   *)
(* far), and its history: read (the keys credentials.get returned) and     *)
(* verified (the credentials.verify calls made and what they returned).    *)
(***************************************************************************)
\* keytar.getPassword found no entry: null
NoKey == "<null>"

\* what credentials.get may return: null, the empty string (save() stores
\* key.trim()), a key
StoredKeys == {NoKey, "", "sk-1"}

\* what credentials.verify may return
VerifyOutcomes ==
    {[ok |-> TRUE, message |-> "deepseek key verified."],
     [ok |-> FALSE, message |-> "Verification failed (401)."],
     [ok |-> FALSE, message |-> "Network error"]}

HcIdle == [pc |-> "idle", i |-> 1, health |-> << >>, read |-> << >>, verified |-> << >>]

\* the key test reading only null as no key
HasKeyNotNull(key) == key # NoKey

\* line 49: `if (!key)` negated
HasKey(key) == key \notin {NoKey, ""}

\* lines 50-55: the entry of a provider without a key
NotConfigured(provider) ==
    [provider |-> provider, ok |-> FALSE, message |-> "Not configured."]

\* line 47: the loop goes on to the next provider, or ends (line 67)
HcAdvance(c) ==
    IF c.i = Len(HEALTH_PROVIDERS) THEN [c EXCEPT !.pc = "done"]
    ELSE [c EXCEPT !.pc = "get", !.i = @ + 1]

\* a caller (runCheck line 59, ipc) calls healthCheckProviders(): to the
\* first `await this.credentials.get(provider)`
HcBegin ==
    /\ hc.pc \in {"idle", "done", "rejected"}
    /\ hc' = [HcIdle EXCEPT !.pc = "get"]
    /\ UNCHANGED notHcVars

\* credentials.get has returned key (line 48): lines 49-59
HcGetReturns(key) ==
    /\ hc.pc = "get"
    /\ LET provider == HEALTH_PROVIDERS[hc.i]
           c        == [hc EXCEPT !.read = Append(@, key)]
       IN  IF HasKey(key)
           THEN hc' = [c EXCEPT !.pc = "verify",
                                !.verified = Append(@, [provider |-> provider,
                                                        returned |-> FALSE,
                                                        ok |-> FALSE])]
           ELSE hc' = HcAdvance([c EXCEPT !.health = Append(@, NotConfigured(provider))])
    /\ UNCHANGED notHcVars

\* credentials.verify has returned result (line 59): lines 60-66
HcVerifyReturns(result) ==
    /\ hc.pc = "verify"
    /\ hc' = HcAdvance([hc EXCEPT
              !.health = Append(@, [provider |-> HEALTH_PROVIDERS[hc.i],
                                    ok |-> result.ok,
                                    message |-> result.message]),
              !.verified[Len(hc.verified)] =
                  [@ EXCEPT !.returned = TRUE, !.ok = result.ok]])
    /\ UNCHANGED notHcVars

\* keytar.getPassword rejects: credentials.get and healthCheckProviders,
\* which catches nothing, reject
HcGetRejects ==
    /\ hc.pc = "get"
    /\ hc' = [hc EXCEPT !.pc = "rejected"]
    /\ UNCHANGED notHcVars

\* healthCheckProviders() returns one entry per provider
HealthSnapshot == [Provider -> BOOLEAN]

TickIds == 1..(MaxTicks + 1)

\* the state after `new GatewayService(...)` and `new ProviderSupervisor(...)`
\* (main.ts:221)
Init ==
    /\ timer = 0
    /\ live = {}
    /\ failureCounts = EmptyCounts
    /\ activeProvider = None
    /\ ticks = << >>
    /\ inits = 0
    /\ hist = HistInit
    /\ gw = GwIdle
    /\ gwPrev = GwIdle
    /\ fn = FnIdle
    /\ vf = VfIdle
    /\ proc = ProcIdle
    /\ gwB = GwIdle
    /\ race = RaceInit
    /\ hc = HcIdle

Next ==
    \/ Initialize
    \/ TimerFire
    \/ Stop
    \/ \E i \in TickIds : ListConfiguredReturns(i)
    \/ \E i \in TickIds, health \in HealthSnapshot : HealthReturns(i, health)
    \/ \E i \in TickIds : \E result \in ApplyResult : ApplyReturns(i, result)
    \/ \E i \in TickIds : NotifyThrows(i)
    \/ \E i \in TickIds : StopReturns(i)
    \/ \E i \in TickIds : StartReturns(i)
    \/ \E i \in TickIds : CollaboratorThrows(i)

Spec == Init /\ [][Next]_vars

ApiNext == Next \/ Reinitialize

ApiSpec == Init /\ [][ApiNext]_vars

GwNext ==
    \/ \E op \in GwOps : GwBegin(op)
    \/ \E res \in ResolveResults : GwResolveReturns(res)
    \/ \E raw \in StatusTexts : GwStatusReturns(raw)
    \/ \E raw \in StatusTexts : GwGatewayStatusReturns(raw)
    \/ \E raw \in StartTexts : GwGatewayStartReturns(raw)
    \/ GwLaunchReturns
    \/ \E res \in StopResults : GwStopScriptReturns(res)
    \/ GwCommandRejects

GatewaySpec == Init /\ [][GwNext]_vars

\* the services as constructed, and a function about to be applied
FnInit ==
    /\ timer = 0
    /\ live = {}
    /\ failureCounts = EmptyCounts
    /\ activeProvider = None
    /\ ticks = << >>
    /\ inits = 0
    /\ hist = HistInit
    /\ gw = GwIdle
    /\ gwPrev = GwIdle
    /\ vf = VfIdle
    /\ proc = ProcIdle
    /\ gwB = GwIdle
    /\ race = RaceInit
    /\ hc = HcIdle
    /\ \/ fn \in {FnCall("parseGatewayOutput", raw) : raw \in ParserTexts}
       \/ fn \in {FnCall("bashQuote", value) : value \in QuoteValues}
       \/ fn \in {FnCall("chooseBestProvider", health) : health \in HealthLists}
       \/ fn \in {FnCall("shouldFailover", args) : args \in FailoverArgs}
       \/ fn \in {FnCall("resolvePreferredProviders", list) : list \in ProviderLists}
       \/ fn \in {FnCall("resolveDefaultModel", args) : args \in DefaultModelArgs}

FnNext ==
    \/ ApplyParseGatewayOutput
    \/ ApplyBashQuote
    \/ ApplyChooseBestProvider
    \/ ApplyShouldFailover
    \/ ApplyResolvePreferredProviders
    \/ ApplyResolveDefaultModel

FnSpec == FnInit /\ [][FnNext]_vars

VerifyNext ==
    \/ \E provider \in VerifyProviders, key \in VerifyKeys : VerifyBegin(provider, key)
    \/ \E status \in HttpStatuses : FetchResponds(status)
    \/ FetchFails
    \/ ProbeTimeout
    \/ FetchAborted

VerifySpec == Init /\ [][VerifyNext]_vars

ProcessNext ==
    \/ RunProcess
    \/ \E stream \in {"stdout", "stderr"}, chunk \in {"a", "b"} : ChildData(stream, chunk)
    \/ ChildError
    \/ \E code \in {0, 1, -1} : ChildClose(code)
    \/ TimerExpires

ProcessSpec == Init /\ [][ProcessNext]_vars

HealthNext ==
    \/ HcBegin
    \/ \E key \in StoredKeys : HcGetReturns(key)
    \/ \E result \in VerifyOutcomes : HcVerifyReturns(result)
    \/ HcGetRejects

HealthSpec == Init /\ [][HealthNext]_vars

RaceNext ==
    \/ \E s \in Slots, op \in GwOps : RaceBegin(s, op)
    \/ \E s \in Slots, res \in ResolveResults : RaceResolveReturns(s, res)
    \/ \E s \in Slots, raw \in RaceTexts : RaceStatusReturns(s, raw)
    \/ \E s \in Slots, raw \in RaceTexts : RaceGatewayStatusReturns(s, raw)
    \/ \E s \in Slots, raw \in StartTexts : RaceGatewayStartReturns(s, raw)
    \/ \E s \in Slots : RaceLaunchReturns(s)
    \/ \E s \in Slots, res \in StopResults : RaceStopScriptReturns(s, res)
    \/ \E s \in Slots : RaceCommandRejects(s)

RaceSpec == Init /\ [][RaceNext]_vars

(***************************************************************************)
(* Claims about the supervisor                                             *)
(***************************************************************************)
LastTick == ticks[Len(ticks)]

\* C1: starting from activeProvider = deepseek with no counter nonzero, when
\* three successive non-overlapping normal ticks have each seen deepseek
\* unhealthy and openai healthy and nothing threw, then at the end of the
\* third tick exactly one applyProfile, one gateway.stop and one
\* gateway.start call have been issued, activeProvider = openai and no
\* counter is nonzero; at the end of the first and of the second tick none of
\* these calls has been issued.
C1_FailoverScenario ==
    (Len(ticks) > 0 /\ hist.run > 0 /\ LastTick.pc = "done") =>
        IF hist.run = FailoverThreshold
        THEN /\ hist.runCalls.applyProfile = 1
             /\ hist.runCalls.stop = 1
             /\ hist.runCalls.start = 1
             /\ activeProvider = "openai"
             /\ AllCountsZero(failureCounts)
        ELSE /\ hist.runCalls = NoCalls
             /\ activeProvider = "deepseek"

C1_Witness ==
    /\ Len(ticks) > 0
    /\ hist.run = FailoverThreshold
    /\ LastTick.pc = "done"
    /\ activeProvider = "openai"

\* C2: at every moment at most one runCheck invocation is between its start
\* and its completion.
C2_TicksSerialized == Cardinality(InFlight) <= 1

\* C3: as long as no collaborator call has thrown, the supervisor has issued
\* at most one applyProfile call since activeProvider last changed.
C3_NoDuplicateFailover == ~hist.threw => hist.applySinceSwitch <= 1

\* C5: a collaborator call that throws in a tick does not make runCheck
\* reject, and leaves the supervisor running: once the tick of initialize()
\* has ended and as long as stop() was not called, the interval is
\* registered whatever has thrown, and the interval can fire a further tick.
C5_TickErrorsContained ==
    /\ \A i \in 1..Len(ticks) : ticks[i].pc # "rejected"
    /\ (hist.threw /\ ~hist.stopped /\ inits > 0 /\ ticks[1].pc \notin InFlightPcs)
           => live # {}
    /\ (hist.threw /\ live # {} /\ Len(ticks) < MaxTicks + 1
            /\ Cardinality(InFlight) < MaxOverlap)
           => ENABLED TimerFire

C5_Witness ==
    /\ hist.threw
    /\ hist.resumed
    /\ live # {}
    /\ InFlight = {}

\* C6: a tick run by initialize() is never at a point after an applyProfile,
\* notify, gateway.stop or gateway.start call, no step of it changes an
\* activeProvider that is set, and an interval is registered only by an
\* initialize() whose tick has completed.
C6_InitializeOnlyTick ==
    /\ [](\A i \in 1..Len(ticks) :
            ticks[i].init => ticks[i].pc \in {"listConfigured", "health", "done"})
    /\ [](\A k \in live : ticks[k].init /\ ticks[k].pc = "done")
    /\ [][\A i \in 1..Len(ticks) :
            (ticks[i].init /\ ticks'[i] # ticks[i] /\ activeProvider # None)
                => activeProvider' = activeProvider]_vars

\* the tick of a later initialize() has ended where the active provider's
\* counter is at the threshold: the snapshot showed it unhealthy, a healthy
\* alternative existed, and nothing was switched
C6_Witness ==
    /\ InFlight = {}
    /\ ~hist.threw
    /\ activeProvider # None
    /\ GetCount(failureCounts, activeProvider) >= FailoverThreshold
    /\ \E i \in 2..Len(ticks) : ticks[i].init
    /\ live # {}

\* C7: once stop() has returned, no further tick is started.
C7_StopCancelsTimer == [][hist.stopped => Len(ticks') = Len(ticks)]_vars

(***************************************************************************)
(* Claims about the gateway controller                                     *)
(***************************************************************************)
Cmds(c) == {c.cmds[k] : k \in DOMAIN c.cmds}

\* C4: a call of GatewayService.status() never ends rejected: it always
\* completes by returning a GatewayStatus, also when a process call times
\* out or the wrapper command cannot be spawned.
C4_StatusNeverRejects == ~(gw.op = "status" /\ gw.pc = "rejected")

\* C8: when the first status query inside start() reports running, start()
\* returns exactly that status and has run neither `gateway start` nor the
\* detached launch; so a start() that follows a start() which returned
\* running, and whose first status query reports that same status, returns
\* the same status and has launched nothing.
C8_IdempotentStart ==
    (gw.op = "start" /\ gw.pc = "done" /\ ~gw.first.null
        /\ gw.first.status.running) =>
        /\ gw.result = gw.first.status
        /\ Cmds(gw) \cap {"gatewayStart", "launch"} = {}
        /\ (gwPrev.op = "start" /\ gwPrev.pc = "done"
                /\ gw.first.status = gwPrev.result) =>
              gw.result = gwPrev.result

C8_Witness ==
    /\ gw.op = "start" /\ gw.pc = "done"
    /\ gwPrev.op = "start" /\ gwPrev.pc = "done"
    /\ "launch" \in Cmds(gwPrev)
    /\ gwPrev.result.running
    /\ ~gw.first.null /\ gw.first.status = gwPrev.result

\* C9: when the status the tool printed at the end of the stop sequence
\* reports the gateway running, stop() returns running=true with a
\* non-empty error; it never returns running=false on such a status.
C9_StopDoesNotLie ==
    (gw.op = "stop" /\ gw.pc = "done" /\ gw.located = "yes"
        /\ parseGatewayOutput(gw.out).running) =>
        /\ gw.result.running
        /\ gw.result.error \notin {Undefined, << >>}

\* C10: when the executable cannot be located, start() and status() return
\* running=false with the non-empty 'not found' error and have run no
\* script but the locating one.
C10_NotFound ==
    (gw.op \in {"start", "status"} /\ gw.pc = "done" /\ gw.located = "no") =>
        /\ ~gw.result.running
        /\ gw.result.error = NotFoundError
        /\ NotFoundError # << >>
        /\ gw.cmds = <<"resolve">>

C10_Witness ==
    /\ gw.op = "start" /\ gw.pc = "done" /\ gw.located = "no"
    /\ gwPrev.op = "status" /\ gwPrev.pc = "done" /\ gwPrev.located = "no"

\* C11: every GatewayStatus that start(), stop() or status() returns has a
\* url only when running is true.
C11_UrlOnlyWhenRunning ==
    gw.pc = "done" => (gw.result.url # NoUrl => gw.result.running)

(***************************************************************************)
(* Claims about the functions                                              *)
(***************************************************************************)
\* the text holds one { and one } after it, and they delimit the object payload
OnlyObject(raw, payload) ==
    /\ Cardinality({i \in DOMAIN raw.text : raw.text[i] = "{"}) = 1
    /\ Cardinality({i \in DOMAIN raw.text : raw.text[i] = "}"}) = 1
    /\ IndexOf(raw.text, "{") < IndexOf(raw.text, "}")
    /\ raw.json = "object"
    /\ raw.payload = payload

\* C12: for every text whose only brace-delimited object is
\* {"running":true,"url":"wss://h:1/"} the status parser returns running=true
\* and the url https://h:1/ exactly.
C12_WssRewritten ==
    (fn.name = "parseGatewayOutput" /\ fn.done
        /\ OnlyObject(fn.arg, [EmptyPayload EXCEPT !.running = "true", !.url = WssUrl])) =>
        /\ fn.res.running
        /\ fn.res.url = <<"https://", "h:1", "/">>

NoBraces(raw) == \A i \in DOMAIN raw.text : raw.text[i] \notin {"{", "}"}

\* C13: for every text with no brace and none of the liveness patterns the
\* status parser returns running=false with the trimmed text as error, and
\* with no error when the text is empty or whitespace only.
C13_PlainTextIsError ==
    (fn.name = "parseGatewayOutput" /\ fn.done /\ NoBraces(fn.arg)
        /\ fn.arg.signals = {}) =>
        /\ ~fn.res.running
        /\ fn.res.error = IF Trim(fn.arg.text) = << >> THEN Undefined
                          ELSE Trim(fn.arg.text)

C13_Witness ==
    /\ fn.name = "parseGatewayOutput" /\ fn.done
    /\ NoBraces(fn.arg) /\ fn.arg.signals = {}
    /\ Trim(fn.arg.text) # << >>
    /\ Trim(fn.arg.text) # fn.arg.text
    /\ fn.res.error = Trim(fn.arg.text)

QuotesIn(s) == Cardinality({i \in DOMAIN s : s[i] = "'"})

\* C14: bashQuote(value) is a single-quoted literal in which every quote of
\* value has become '\'' , and the shell reads it as the one argument value.
C14_QuoteRoundTrip ==
    (fn.name = "bashQuote" /\ fn.done) =>
        /\ ShellWords(fn.res) = <<fn.arg>>
        /\ Head(fn.res) = "'" /\ fn.res[Len(fn.res)] = "'"
        /\ Len(fn.res) = Len(fn.arg) + 2 + 3 * QuotesIn(fn.arg)
        /\ QuotesIn(fn.res) = 2 + 3 * QuotesIn(fn.arg)

C14_Witness ==
    /\ fn.name = "bashQuote" /\ fn.done
    /\ fn.arg = <<"t", "'", "t">>
    /\ fn.res = <<"'", "t", "'", "\\", "'", "'", "t", "'">>
    /\ ShellWords(fn.res) = <<fn.arg>>

HasHealthy(health, p) == \E k \in DOMAIN health : health[k].provider = p /\ health[k].ok

\* C15: chooseBestProvider returns the first of deepseek, openai, anthropic
\* that has an entry with ok=true, no provider when none of the three has
\* one, and never perplexity.
C15_ChoosesByPriority ==
    (fn.name = "chooseBestProvider" /\ fn.done) =>
        /\ fn.res = IF HasHealthy(fn.arg, "deepseek") THEN "deepseek"
                    ELSE IF HasHealthy(fn.arg, "openai") THEN "openai"
                    ELSE IF HasHealthy(fn.arg, "anthropic") THEN "anthropic"
                    ELSE None
        /\ fn.res # "perplexity"

\* the list of the test of fallback.ts
C15_Witness ==
    /\ fn.name = "chooseBestProvider" /\ fn.done
    /\ fn.arg = <<[provider |-> "openai", ok |-> TRUE],
                  [provider |-> "deepseek", ok |-> FALSE],
                  [provider |-> "anthropic", ok |-> TRUE],
                  [provider |-> "perplexity", ok |-> TRUE]>>
    /\ fn.res = "openai"

\* C16: shouldFailover(count, threshold) is true exactly when count >=
\* threshold, false for (2,3) and true for (3,3), stays true for every
\* larger count, and compares with 3 when no threshold is given.
C16_ShouldFailover ==
    (fn.name = "shouldFailover" /\ fn.done) =>
        LET count     == fn.arg[1]
            threshold == IF Len(fn.arg) = 2 THEN fn.arg[2] ELSE 3
        IN  /\ fn.res = (count >= threshold)
            /\ fn.arg = <<2, 3>> => ~fn.res
            /\ fn.arg = <<3, 3>> => fn.res
            /\ fn.res => \A more \in count..MaxCount : shouldFailover(more, threshold)
            /\ ~fn.res => \A less \in 0..count : ~shouldFailover(less, threshold)

C16_Witness ==
    /\ fn.name = "shouldFailover" /\ fn.done
    /\ fn.arg = <<3>>
    /\ fn.res

(***************************************************************************)
(* Claims about credential verification                                    *)
(***************************************************************************)
\* C17: for every provider and every key that is empty or whitespace only,
\* verify returns ok=false and canSkip=false and has issued no request.
C17_BlankKeyRejected ==
    (vf.pc = "done" /\ \A i \in DOMAIN vf.key : vf.key[i] \in Whitespace) =>
        /\ ~vf.result.ok
        /\ ~vf.result.canSkip
        /\ ~vf.requested

C17_Witness ==
    /\ vf.pc = "done" /\ vf.provider = "openai" /\ vf.key = <<"\n", " ">>
    /\ ~vf.result.ok /\ ~vf.requested

\* C18: a request that ended with a success status gives ok=true,
\* canSkip=false; with another status ok=false, canSkip=false and that
\* status; one that threw or timed out ok=false, canSkip=true; and no result
\* has canSkip=true together with ok=true or with a status.
C18_VerifyClasses ==
    vf.pc = "done" =>
        /\ (vf.outcome = "response" /\ vf.status \in 200..299) =>
              (vf.result.ok /\ ~vf.result.canSkip)
        /\ (vf.outcome = "response" /\ vf.status \notin 200..299) =>
              (~vf.result.ok /\ ~vf.result.canSkip /\ vf.result.statusCode = vf.status)
        /\ vf.outcome \in {"threw", "timedOut"} =>
              (~vf.result.ok /\ vf.result.canSkip)
        /\ vf.result.canSkip =>
              (~vf.result.ok /\ vf.result.statusCode = NoStatus
                  /\ vf.outcome \in {"threw", "timedOut"})

C18_Witness ==
    /\ vf.pc = "done" /\ vf.outcome = "timedOut" /\ vf.timeout = "fired"
    /\ vf.result.canSkip

(***************************************************************************)
(* Claims about the process executor                                       *)
(***************************************************************************)
TimedOut(p) == p.promise = "rejected" /\ p.value = <<"Command timed out">>

\* C19: when the timer expires before the child has closed, runProcess has
\* sent the child SIGTERM and then rejected with the timeout error; it never
\* rejects with the timeout error without the signal sent before, and a call
\* that has failed so never delivers a CommandResult.
C19_TimeoutKillsThenFails ==
    /\ [](proc.timer = "fired" =>
            (TimedOut(proc) /\ proc.log = <<"kill", "rejected">>))
    /\ [](TimedOut(proc) => proc.signals = <<"SIGTERM">>)
    /\ [][TimedOut(proc) => (TimedOut(proc') /\ proc'.log = proc.log)]_vars

\* the child closes after the call has failed with the timeout error
C19_Witness ==
    /\ TimedOut(proc)
    /\ proc.child = "closed"
    /\ proc.signals = <<"SIGTERM">>

(***************************************************************************)
(* Claims about concurrent calls of the gateway controller                 *)
(***************************************************************************)
\* C20: the gateway controller excludes no call: a caller whose last call
\* has ended can begin start(), stop() or status() whatever the other
\* caller's call is doing.  (The witness is the state the claim describes:
\* two start() calls in progress that both saw the gateway not running and
\* both ran the launch script, after a stop() ran its script during a launch.)
C20_NoMutualExclusion ==
    \A s \in Slots, op \in GwOps :
        Call(s).pc \in {"idle", "done", "rejected"} => ENABLED RaceBegin(s, op)

C20_Witness ==
    /\ \A s \in Slots :
          /\ Call(s).op = "start" /\ Call(s).pc \in GwAwaits
          /\ Launched(Call(s))
          /\ ~Call(s).first.null /\ ~Call(s).first.status.running
    /\ race.doubleLaunch
    /\ race.stopBetween

(***************************************************************************)
(* C21. Failover step order and completeness: a failover calls             *)
(* applyProfile, then notifies, sets the new provider active and clears    *)
(* the counters, then calls gateway.stop and then gateway.start; a tick    *)
(* that has switched activeProvider and is waiting for gateway.stop goes   *)
(* on to call gateway.start, whatever the outcome of gateway.stop.         *)
(***************************************************************************)
C21_FailoverRestarts ==
    [][\A i \in 1..Len(ticks) :
          /\ ticks[i].pc = "apply" /\ ticks'[i].pc \in InFlightPcs
                => /\ ticks'[i].pc \in {"apply", "stop"}
                   /\ ticks'[i].pc = "stop"
                        => /\ activeProvider' = ticks[i].best
                           /\ AllCountsZero(failureCounts')
          /\ ticks[i].pc = "stop" => ticks'[i].pc \in {"stop", "start"}]_vars

(***************************************************************************)
(* C22. The failure counter of the active provider equals the number of    *)
(* most recent consecutive ticks in which the active provider was observed *)
(* unhealthy: zero after a tick that observed it healthy or after a        *)
(* failover.                                                               *)
(***************************************************************************)
C22_CountsUnhealthyTicks ==
    activeProvider # None => GetCount(failureCounts, activeProvider) = hist.down

\* C22 as amended: the counter of the active provider equals the number of
\* most recent ticks, since it was last observed healthy and since the last
\* failover, that observed it unhealthy while some eligible provider was
\* healthy; a tick that finds no healthy eligible provider is not counted.
C22_CountsCountedTicks ==
    activeProvider # None => GetCount(failureCounts, activeProvider) = hist.counted

C22_Witness ==
    /\ InFlight = {}
    /\ activeProvider # None
    /\ hist.counted = 2
    /\ hist.down = 3
    /\ GetCount(failureCounts, activeProvider) = 2

(***************************************************************************)
(* C23. No flapping: activeProvider is switched away from a provider only  *)
(* by a normal tick that found it unhealthy, and only when the most recent *)
(* snapshots since it became active or was last seen healthy showed it     *)
(* unhealthy in at least 3 ticks; so two successive failovers are at least *)
(* 3 ticks apart.                                                          *)
(***************************************************************************)
C23_NoFlapping ==
    [][(activeProvider # None /\ activeProvider' # activeProvider)
          => /\ \E i \in 1..Len(ticks) :
                    /\ ~ticks[i].init
                    /\ ticks[i].pc = "apply"
                    /\ ticks'[i].pc = "stop"
             /\ hist.down >= FailoverThreshold]_vars

(***************************************************************************)
(* C24. Failover is triggered within 3 ticks: as long as no collaborator   *)
(* call has thrown, a normal tick whose snapshot is the third (or a later) *)
(* in a row to show the active provider unhealthy and some other eligible  *)
(* provider healthy calls applyProfile for an eligible provider other than *)
(* the active one, and a tick that has called applyProfile ends only after *)
(* having made that provider the active one.                               *)
(***************************************************************************)
C24_FailoverTriggered ==
    [][~hist'.threw =>
         \A i \in 1..Len(ticks) :
            /\ ( /\ ticks[i].pc = "health"
                 /\ ticks'[i].pc # "health"
                 /\ ~ticks[i].init
                 /\ hist'.counted > hist.counted
                 /\ hist'.counted >= FailoverThreshold )
                   => /\ ticks'[i].pc = "apply"
                      /\ ticks'[i].best \in {PRIORITY[k] : k \in DOMAIN PRIORITY}
                      /\ ticks'[i].best # activeProvider'
            /\ (ticks[i].pc = "apply" /\ ticks'[i].pc # "apply")
                   => /\ ticks'[i].pc = "stop"
                      /\ activeProvider' = ticks[i].best]_vars

C24_Witness ==
    /\ ~hist.threw
    /\ activeProvider = "openai"
    /\ \E i \in 1..Len(ticks) : ticks[i].pc = "stop"
    /\ \A i \in 1..Len(ticks) : ticks[i].pc \notin {"listConfigured", "health", "apply"}
    /\ Len(ticks) = FailoverThreshold + 1

(***************************************************************************)
(* C25. A tick whose snapshot shows deepseek, openai and anthropic all     *)
(* unhealthy takes no action: it ends there, activeProvider and the        *)
(* failure counters are unchanged, and no applyProfile, notify or gateway  *)
(* call is made.                                                           *)
(***************************************************************************)
C25_NoHealthyNoAction ==
    [][\A i \in 1..Len(ticks), health \in HealthSnapshot :
          ( /\ \A p \in {"deepseek", "openai", "anthropic"} : ~health[p]
            /\ HealthReturns(i, health) )
              => /\ ticks'[i].pc = "done"
                 /\ activeProvider' = activeProvider
                 /\ failureCounts' = failureCounts
                 /\ hist'.applySinceSwitch = hist.applySinceSwitch
                 /\ hist'.runCalls = hist.runCalls]_vars

\* a tick has ended on such a snapshot while a provider is active
C25_Witness ==
    /\ InFlight = {}
    /\ activeProvider # None
    /\ hist.down = 1
    /\ hist.counted = 0
    /\ Len(ticks) = 2

(***************************************************************************)
(* C26. First-run bootstrap: a tick that has no active provider when its   *)
(* snapshot arrives and finds a healthy eligible provider makes the first  *)
(* healthy provider in priority order the active one and does nothing      *)
(* else: the failure-counter map is unchanged and no applyProfile, notify  *)
(* or gateway call is made.                                                *)
(***************************************************************************)
C26_BootstrapOnly ==
    [][\A i \in 1..Len(ticks), health \in HealthSnapshot :
          ( /\ activeProvider = None
            /\ \E p \in {"deepseek", "openai", "anthropic"} : health[p]
            /\ HealthReturns(i, health) )
              => /\ activeProvider' \in {"deepseek", "openai", "anthropic"}
                 /\ health[activeProvider']
                 /\ \A k \in 1..Len(PRIORITY) :
                        health[PRIORITY[k]] /\ PRIORITY[k] # activeProvider'
                            => \E j \in 1..(k - 1) : PRIORITY[j] = activeProvider'
                 /\ ticks'[i].pc = "done"
                 /\ failureCounts' = failureCounts
                 /\ hist'.applySinceSwitch = hist.applySinceSwitch
                 /\ hist'.runCalls = hist.runCalls]_vars

(***************************************************************************)
(* C27. Start fallback ordering: a start() call runs the detached          *)
(* `gateway run` launch at most once, and only on a status query that      *)
(* reports not running, made after the `gateway start` attempt of the same *)
(* call; start() returns running=true only on a status query of the same   *)
(* call that reports running, and returns what that query reported.        *)
(***************************************************************************)
\* the status the call reads from raw, printed by the script it awaits
ReadFrom(c, raw) ==
    IF c.pc = "gatewayStatus" THEN parseGatewayOutput(raw)
    ELSE parseStatusOutput(raw).status

\* the script the call awaits is a status query that has printed raw, which
\* yields a status
StatusQueryReturns(raw) ==
    \/ GwStatusReturns(raw) /\ ~parseStatusOutput(raw).null
    \/ GwGatewayStatusReturns(raw)

C27_StartFallbackOrder ==
    /\ [](gw.op = "start" =>
            /\ Cardinality({k \in DOMAIN gw.cmds : gw.cmds[k] = "launch"}) <= 1
            /\ \A k \in DOMAIN gw.cmds : gw.cmds[k] = "launch" =>
                   \E j \in 1..(k - 2) :
                       /\ gw.cmds[j] = "gatewayStart"
                       /\ \A m \in (j + 1)..(k - 1) :
                              gw.cmds[m] \in {"status", "gatewayStatus"})
    /\ [][gw.op = "start" =>
            /\ (gw.pc # "launch" /\ gw'.pc = "launch") =>
                   \E raw \in StatusTexts :
                       /\ StatusQueryReturns(raw)
                       /\ ~ReadFrom(gw, raw).running
            /\ (gw'.pc = "done" /\ gw.pc # "done" /\ gw'.result.running) =>
                   \E raw \in StatusTexts :
                       /\ StatusQueryReturns(raw)
                       /\ ReadFrom(gw, raw).running
                       /\ gw'.result = ReadFrom(gw, raw)]_vars

\* a start() call that launched the gateway and then found it running
C27_Witness ==
    /\ gw.op = "start"
    /\ gw.pc = "done"
    /\ gw.result.running
    /\ \E k \in DOMAIN gw.cmds : gw.cmds[k] = "launch"

(***************************************************************************)
(* C28. A start() call that ends without the gateway running returns       *)
(* running=false with the most specific error: the error of the `gateway   *)
(* start` output if it has one, otherwise the error of the last status     *)
(* query, otherwise a generic message; the error returned is never         *)
(* missing or empty.                                                       *)
(***************************************************************************)
C28_StartErrorSpecific ==
    /\ []((gw.op = "start" /\ gw.pc = "done" /\ ~gw.result.running) =>
            /\ gw.result.error \notin {Undefined, << >>}
            /\ (gw.located = "yes" /\ gw.startError # Undefined)
                   => gw.result.error = gw.startError)
    /\ [][( /\ gw.op = "start"
            /\ gw.pc # "done"
            /\ gw'.pc = "done"
            /\ ~gw'.result.running
            /\ gw.located = "yes"
            /\ gw.startError = Undefined ) =>
               \E raw \in StatusTexts :
                   /\ StatusQueryReturns(raw)
                   /\ gw'.result.error =
                          IF ReadFrom(gw, raw).error \notin {Undefined, << >>}
                          THEN ReadFrom(gw, raw).error
                          ELSE <<"Failed to start OpenClaw gateway.">>]_vars

(***************************************************************************)
(* C29. Layered status query: status() runs the general status command     *)
(* first and returns what parseStatusOutput reads from its output whenever *)
(* that is not null; it runs the gateway status command only when the      *)
(* general output yields no status, and runs no other query.               *)
(***************************************************************************)
C29_LayeredStatus ==
    /\ [](gw.op = "status" =>
            \A k \in DOMAIN gw.cmds :
                gw.cmds[k] = <<"resolve", "status", "gatewayStatus">>[k])
    /\ [][gw.op = "status" =>
            /\ \A raw \in StatusTexts :
                  (GwStatusReturns(raw) /\ ~parseStatusOutput(raw).null) =>
                      /\ gw'.pc = "done"
                      /\ gw'.result = parseStatusOutput(raw).status
            /\ (gw.pc # "gatewayStatus" /\ gw'.pc = "gatewayStatus") =>
                  \E raw \in StatusTexts :
                      /\ GwStatusReturns(raw)
                      /\ parseStatusOutput(raw).null]_vars

\* a status() call answered by the general status command, followed by one
\* that had to run the gateway status command
C29_Witness ==
    /\ gwPrev.op = "status"
    /\ gwPrev.pc = "done"
    /\ gwPrev.cmds = <<"resolve", "status">>
    /\ gw.op = "status"
    /\ gw.pc = "done"
    /\ gw.cmds = <<"resolve", "status", "gatewayStatus">>

(***************************************************************************)
(* C30. Strict parser precedence: on a text that holds a JSON object, a    *)
(* boolean running field decides the result whatever gateway and rpc       *)
(* fields and liveness patterns the text also has; otherwise the gateway   *)
(* field (reachable) decides, otherwise the rpc field (ok), each with its  *)
(* url only when running; the liveness patterns decide only when the       *)
(* object has none of the three.                                           *)
(***************************************************************************)
\* the text has a span from a first { to a later } that is a JSON object
HasSpan(raw) ==
    /\ IndexOf(raw.text, "{") # 0
    /\ LastIndexOf(raw.text, "}") > IndexOf(raw.text, "{")
    /\ raw.json = "object"

C30_ParserPrecedence ==
    (fn.name = "parseGatewayOutput" /\ fn.done /\ HasSpan(fn.arg)) =>
        LET p   == fn.arg.payload
            res == fn.res
        IN  IF p.running # "absent"
            THEN res.running = (p.running = "true")
            ELSE IF p.gateway.present
            THEN /\ res.running = p.gateway.reachable
                 /\ res.url = IF res.running THEN toDashboardUrl(p.gateway.url)
                              ELSE NoUrl
            ELSE IF p.rpc.present
            THEN /\ res.running = p.rpc.ok
                 /\ res.url = IF res.running THEN toDashboardUrl(p.rpc.url) ELSE NoUrl
            ELSE res.running = (fn.arg.signals # {})

\* the parser has read running=false from an object that also shows a
\* reachable gateway, an rpc that is ok, and liveness patterns
C30_Witness ==
    /\ fn.name = "parseGatewayOutput" /\ fn.done
    /\ HasSpan(fn.arg)
    /\ fn.arg.payload.running = "false"
    /\ fn.arg.payload.gateway.reachable
    /\ fn.arg.payload.rpc.ok
    /\ fn.arg.signals # {}
    /\ ~fn.res.running

(***************************************************************************)
(* C31. The health snapshot has one entry per provider, in the order       *)
(* deepseek, openai, anthropic, perplexity; a provider without a stored    *)
(* key has ok=false and the message `Not configured.` and is not verified; *)
(* a provider with a key is verified exactly once and its entry's ok is    *)
(* what that verification returned.                                        *)
(***************************************************************************)
VerifiedAt(c, p) == {k \in DOMAIN c.verified : c.verified[k].provider = p}

C31_HealthSnapshot ==
    hc.pc = "done" =>
        /\ Len(hc.health) = 4
        /\ \A k \in 1..4 :
              LET p == <<"deepseek", "openai", "anthropic", "perplexity">>[k]
                  e == hc.health[k]
              IN  /\ e.provider = p
                  /\ hc.read[k] \in {NoKey, ""} =>
                        /\ ~e.ok
                        /\ e.message = "Not configured."
                        /\ VerifiedAt(hc, p) = {}
                  /\ hc.read[k] \notin {NoKey, ""} =>
                        /\ Cardinality(VerifiedAt(hc, p)) = 1
                        /\ \A j \in VerifiedAt(hc, p) :
                              /\ hc.verified[j].returned
                              /\ e.ok = hc.verified[j].ok

\* a snapshot with a provider without key, one with an empty key, one verified
\* healthy and one verified unhealthy
C31_Witness ==
    /\ hc.pc = "done"
    /\ \E k \in 1..4 : hc.read[k] = NoKey
    /\ \E k \in 1..4 : hc.read[k] = ""
    /\ \E k \in 1..4 : hc.read[k] \notin {NoKey, ""} /\ hc.health[k].ok
    /\ \E k \in 1..4 : hc.read[k] \notin {NoKey, ""} /\ ~hc.health[k].ok

(***************************************************************************)
(* C32. When applyProfile returns ok=false the tick leaves activeProvider  *)
(* and the failure counters as they were and does not restart the gateway: *)
(* the switch and the restart happen only after ok=true.                   *)
(***************************************************************************)
C32_SwitchOnlyOnSuccess ==
    [][\A i \in 1..Len(ticks) : \A result \in ApplyResult :
          (~result.ok /\ ApplyReturns(i, result)) =>
              /\ activeProvider' = activeProvider
              /\ failureCounts' = failureCounts
              /\ ticks'[i].pc \notin {"stop", "start"}]_vars

C34_NoFailBack ==
    [][\A i \in 1..Len(ticks) :
          (ticks[i].pc = "health" /\ ticks'[i].pc # "health" /\ activeProvider # None)
          => \A health \in HealthSnapshot :
                (health[activeProvider] /\ HealthReturns(i, health))
                => /\ activeProvider' = activeProvider
                   /\ GetCount(failureCounts', activeProvider) = 0
                   /\ \A p \in Provider \ {activeProvider} :
                         GetCount(failureCounts', p) = GetCount(failureCounts, p)
                   /\ ticks'[i].pc = "done"
                   /\ \A j \in 1..Len(ticks) : j # i => ticks'[j] = ticks[j]
                   /\ hist'.applySinceSwitch = hist.applySinceSwitch]_vars

\* anthropic, the last in priority, is still active after three ticks that
\* all got their snapshot, the latest of which showed it healthy
C34_Witness ==
    /\ activeProvider = "anthropic"
    /\ "anthropic" \in DOMAIN failureCounts
    /\ failureCounts["anthropic"] = 0
    /\ Len(ticks) = 3
    /\ \A k \in 1..Len(ticks) : ticks[k].pc = "done"
    /\ ~hist.threw
    /\ hist.down = 0

(***************************************************************************)
(* C35. activeProvider is always unset or one of deepseek, openai,         *)
(* anthropic, never perplexity; once set it is never unset; and it changes *)
(* only to a provider that was healthy in the snapshot of the tick that    *)
(* adopts it, at the bootstrap or when that tick's applyProfile returns.   *)
(***************************************************************************)
C35_ActiveProviderEligible ==
    /\ [](activeProvider \in {None, "deepseek", "openai", "anthropic"})
    /\ [][/\ activeProvider # None => activeProvider' # None
          /\ \A i \in 1..Len(ticks) :
                ( /\ ticks[i].pc = "health"
                  /\ activeProvider' # activeProvider \/ ticks'[i].pc = "apply" ) =>
                   \A health \in HealthSnapshot :
                      HealthReturns(i, health) =>
                         /\ activeProvider' # activeProvider
                               => activeProvider = None /\ health[activeProvider']
                         /\ ticks'[i].pc = "apply" => health[ticks'[i].best]
          /\ \A i \in 1..Len(ticks) :
                (ticks[i].pc = "apply" /\ ticks'[i].pc = "apply")
                   => ticks'[i].best = ticks[i].best
          /\ activeProvider' # activeProvider =>
                \E i \in 1..Len(ticks) :
                   \/ ticks[i].pc = "health" /\ ticks'[i].pc = "done"
                   \/ /\ ticks[i].pc = "apply"
                      /\ ticks'[i].pc = "stop"
                      /\ activeProvider' = ticks[i].best]_vars

\* anthropic was adopted by a failover and the gateway is being started
C35_Witness ==
    /\ activeProvider = "anthropic"
    /\ failureCounts = EmptyCounts
    /\ \E i \in 1..Len(ticks) : ticks[i].pc = "start" /\ ~ticks[i].init

(***************************************************************************)
(* C36. In every state, whatever the interleaving of the ticks, a failure  *)
(* counter that is nonzero belongs to the current activeProvider: the      *)
(* counters of the other providers are zero or absent, so at most one      *)
(* counter is nonzero.                                                     *)
(***************************************************************************)
C36_OnlyActiveCounted ==
    /\ \A p \in Provider :
          GetCount(failureCounts, p) # 0 => p = activeProvider
    /\ Cardinality({p \in Provider : GetCount(failureCounts, p) # 0}) <= 1

\* openai, adopted by a failover whose tick is still restarting the gateway,
\* has been counted unhealthy by an overlapping tick; deepseek has no counter
C36_Witness ==
    /\ activeProvider = "openai"
    /\ failureCounts = [p \in {"openai"} |-> 1]
    /\ \E i \in 1..Len(ticks) : ticks[i].pc \in {"stop", "start"}

(***************************************************************************)
(* C37. Bounded counter: with initialize() called once and no collaborator *)
(* call throwing, every failure counter is at most 2 whenever no tick is   *)
(* running (so after every completed tick when ticks do not overlap), and  *)
(* a counter is at the threshold 3 or above only while a normal tick that  *)
(* fails over, and will clear it, awaits applyProfile.                     *)
(***************************************************************************)
C37_BoundedCounter ==
    ~hist.threw =>
        /\ InFlight = {} =>
              \A p \in Provider : GetCount(failureCounts, p) < FailoverThreshold
        /\ \A p \in Provider :
              GetCount(failureCounts, p) >= FailoverThreshold
                 => \E i \in 1..Len(ticks) : ticks[i].pc = "apply" /\ ~ticks[i].init

\* five ticks have run and ended and none threw; one of them failed over to
\* openai and cleared the counters, the fifth counted openai unhealthy once
C37_Witness ==
    /\ ~hist.threw
    /\ InFlight = {}
    /\ Len(ticks) = 5
    /\ activeProvider = "openai"
    /\ failureCounts = [p \in {"openai"} |-> 1]
    /\ hist.applySinceSwitch = 0

(***************************************************************************)
(* C38. runProcess settles exactly once.  Of the timeout, the child's      *)
(* error event and its close event, the first to occur finishes the call   *)
(* and alone determines the outcome: the CommandResult for close, the      *)
(* launch error for error, the timeout error (after SIGTERM) for the       *)
(* timeout.  Later events change neither the outcome nor the signals, and  *)
(* SIGTERM is never sent once the child has closed or failed to launch.    *)
(***************************************************************************)
C38_SettlesOnce ==
    /\ [](proc.finished <=> proc.promise # "pending")
    /\ [](Len(SelectSeq(proc.log, LAMBDA e : e \in {"resolved", "rejected"})) <= 1)
    /\ [][/\ proc.finished =>
                /\ proc'.finished
                /\ proc'.promise = proc.promise
                /\ proc'.value = proc.value
                /\ proc'.signals = proc.signals
                /\ proc'.log = proc.log
          /\ (~proc.finished /\ proc.child = "alive" /\ proc'.child = "closed") =>
                /\ proc'.promise = "resolved"
                /\ proc'.value[1] = proc.stdout /\ proc'.value[2] = proc.stderr
                /\ proc'.signals = << >>
          /\ (~proc.finished /\ proc.child = "alive" /\ proc'.child = "errored") =>
                /\ proc'.promise = "rejected"
                /\ proc'.value = <<"spawn error">>
                /\ proc'.signals = << >>
          /\ (~proc.finished /\ proc.timer = "armed" /\ proc'.timer = "fired") =>
                /\ TimedOut(proc')
                /\ proc'.signals = <<"SIGTERM">>
          /\ proc'.signals # proc.signals =>
                proc.child = "alive" /\ ~proc.finished]_vars

\* the child failed to launch and then closed: the launch error is the
\* outcome, the close was ignored and no signal was sent
C38_Witness ==
    /\ proc.child = "closed"
    /\ proc.promise = "rejected"
    /\ proc.value = <<"spawn error">>
    /\ proc.log = <<"rejected">>
    /\ proc.signals = << >>
    /\ proc.timer = "cleared"

(***************************************************************************)
(* C39. resolvePreferredProviders returns exactly the configured providers *)
(* among deepseek, openai, anthropic, each once and in that order whatever *)
(* the order of the input, and never perplexity; resolveDefaultModel       *)
(* without a preferred model returns the model of the first of them, and   *)
(* deepseek's model when there is none.                                    *)
(***************************************************************************)
Listed(list) == {list[k] : k \in DOMAIN list}

C39_PreferredProviders ==
    /\ (fn.name = "resolvePreferredProviders" /\ fn.done) =>
          LET rank == [p \in {"deepseek", "openai", "anthropic"} |->
                          IF p = "deepseek" THEN 1 ELSE IF p = "openai" THEN 2 ELSE 3]
          IN  /\ Listed(fn.res) = Listed(fn.arg) \cap {"deepseek", "openai", "anthropic"}
              /\ "perplexity" \notin Listed(fn.res)
              /\ \A i, j \in DOMAIN fn.res : i < j => rank[fn.res[i]] < rank[fn.res[j]]
              /\ fn.arg = <<"openai", "deepseek", "perplexity">>
                    => fn.res = <<"deepseek", "openai">>
    /\ (fn.name = "resolveDefaultModel" /\ fn.done /\ fn.arg[2] = "<undefined>") =>
          LET configured == Listed(fn.arg[1])
          IN  fn.res = IF "deepseek" \in configured THEN "deepseek-chat"
                       ELSE IF "openai" \in configured THEN "gpt-4.1-mini"
                       ELSE IF "anthropic" \in configured THEN "claude-3-5-haiku-latest"
                       ELSE "deepseek-chat"

\* openai's model for the list perplexity, anthropic, openai
C39_Witness ==
    /\ fn.name = "resolveDefaultModel" /\ fn.done
    /\ fn.arg = <<<<"perplexity", "anthropic", "openai">>, "<undefined>">>
    /\ fn.res = "gpt-4.1-mini"

====
